---- MODULE Spec2Model ----
(***************************************************************************)
(* Model of the betting tools of src/tools.py: TeamStrengthTool._run (the  *)
(* Team Strength Estimator) and OddsAnalysisTool._run (the Odds            *)
(* Valuator).                                                              *)
(*                                                                         *)
(* Numbers.  The code computes in Python floats.  The model computes the   *)
(* same expressions in exact rational arithmetic: a number is a pair       *)
(* <<n, d>> in lowest terms with d > 0.  Where the rounding error of a     *)
(* float changes a comparison or a printed digit, the model computes the   *)
(* double the code holds, so that the model and the code print the same.   *)
(*                                                                         *)
(* Strings.  A str is the sequence of its characters; an Optional value is *)
(* <<>> for None and <<v>> for the value v.                                *)
(***************************************************************************)
EXTENDS Integers, Sequences, FiniteSets, TLC

VARIABLES tools, calls, config, threads, chat_history, analyses, fetcher, live

vars == <<tools, calls, config, threads, chat_history, analyses, fetcher, live>>

(***************************************************************************)
(* Bounds of the model.                                                    *)
(***************************************************************************)
MaxFormLen == 2
MaxCalls == 3
MaxThreads == 2
MaxAnalyses == 2
MaxSession == 3

(***************************************************************************)
(* Python float arithmetic.  A float is held as the exact value that the   *)
(* arithmetic on the decimal arguments gives.  Where the code decides on a *)
(* float that lies exactly on the boundary of the decision (a comparison   *)
(* with a number it equals, a digit to print half-way between two digits), *)
(* the double that the code holds decides: see the doubles below.          *)
(***************************************************************************)
Abs(n) == IF n < 0 THEN -n ELSE n

RECURSIVE GCD(_, _)
GCD(a, b) == IF b = 0 THEN a ELSE GCD(b, a % b)

Rat(n, d) ==
    LET g == GCD(Abs(n), Abs(d))
        s == IF d < 0 THEN -1 ELSE 1
    IN  <<(s * n) \div g, (s * d) \div g>>

Zero == Rat(0, 1)
One == Rat(1, 1)

RAdd(x, y) == Rat(x[1] * y[2] + y[1] * x[2], x[2] * y[2])
RSub(x, y) == Rat(x[1] * y[2] - y[1] * x[2], x[2] * y[2])
RMul(x, y) == Rat(x[1] * y[1], x[2] * y[2])
RDiv(x, y) == Rat(x[1] * y[2], x[2] * y[1])
RGt(x, y) == x[1] * y[2] > y[1] * x[2]

\* round(x * scale) to the nearest integer, ties to the even one: the rounding
\* of round(x, 3) and of the format specification .1%
RoundHalfEven(x, scale) ==
    LET n == x[1] * scale
        d == x[2]
        q == n \div d
        r == n - q * d
    IN  IF 2 * r < d THEN q
        ELSE IF 2 * r > d THEN q + 1
        ELSE IF q % 2 = 0 THEN q ELSE q + 1

\* f"{x:.1%}": x as a percentage with one decimal, held in tenths of a percent
Pct1(x) == RoundHalfEven(x, 1000)

\* round(x, 3), held in thousandths
Round3(x) == RoundHalfEven(x, 1000)

\* x * 1000 lies half-way between two whole numbers
RoundingTie(x) == 2 * ((x[1] * 1000) % x[2]) = x[2]

(***************************************************************************)
(* The doubles Python holds.  A double is sign * m * 2^e with m a whole    *)
(* number below 2^53, kept as limbs of 14 bits, lowest first, so that a    *)
(* product of two limbs is a small number.  Every operation gives the      *)
(* nearest double of the exact result, ties to the even one.  As a         *)
(* statement of the code assigns the value of an expression to a local     *)
(* variable, Only({body : x \in {value}}) computes a value once and names  *)
(* it x in the body.                                                       *)
(***************************************************************************)
LIMB == 2^14

\* the element of a set of one element
Only(S) == CHOOSE r \in S : TRUE

\* limb i of a whole number, 0 beyond its length
Limb(n, i) == IF i \in DOMAIN n THEN n[i] ELSE 0

\* the limbs of the number whose limbs may be negative or too big, from
\* limb i on with the carry c
RECURSIVE Carry(_, _, _)
Carry(n, i, c) ==
    IF i > Len(n)
    THEN IF c = 0 THEN <<>> ELSE <<c % LIMB>> \o Carry(n, i, c \div LIMB)
    ELSE Only({<<t % LIMB>> \o Carry(n, i + 1, t \div LIMB) :
               t \in {n[i] + c}})

\* a >= b for whole numbers
BigGE(a0, b0) ==
    \E a \in {a0}, b \in {b0} :
        \E differ \in {{i \in DOMAIN a \cup DOMAIN b :
                           Limb(a, i) # Limb(b, i)}} :
            \/ differ = {}
            \/ \E h \in differ :
                   /\ \A j \in differ : j <= h
                   /\ Limb(a, h) > Limb(b, h)

\* bit k of a whole number, bit 0 the lowest
Bit(n, k) == (Limb(n, (k \div 14) + 1) \div 2^(k % 14)) % 2

\* the number of bits of a whole number
BitLen(n) ==
    Only({IF limbs = {} THEN 0
          ELSE Only({14 * (h - 1)
                     + (CHOOSE k \in 1..14 : 2^(k - 1) <= n[h] /\ n[h] < 2^k) :
                     h \in {i \in limbs : \A j \in limbs : j <= i}}) :
          limbs \in {{i \in DOMAIN n : n[i] # 0}}})

\* n * 2^s and floor(n / 2^s)
Shl(n, s) ==
    Carry([i \in 1..(Len(n) + (s \div 14)) |->
              Limb(n, i - (s \div 14)) * 2^(s % 14)], 1, 0)
Shr(n, s) ==
    [i \in 1..Len(n) |->
        (Limb(n, i + (s \div 14)) \div 2^(s % 14))
        + (Limb(n, i + (s \div 14) + 1) % 2^(s % 14)) * 2^(14 - (s % 14))]

\* the nearest double of sign * (n + f) * 2^e, where 0 <= f < 1 and sticky
\* tells whether f is above 0: s bits are dropped from n, which is rounded
\* up when they are more than half a unit, or half a unit and the bit kept
\* last is odd
Round53(sign, n0, e, sticky) ==
    Only({Only({Only({Only({
        IF s = -53 THEN [sign |-> 1, m |-> <<0, 0, 0, 0>>, e |-> 0]
        ELSE [sign |-> sign,
              m |-> SubSeq((IF over THEN Shr(m, 1) ELSE m) \o <<0, 0, 0, 0>>,
                           1, 4),
              e |-> e + s + (IF over THEN 1 ELSE 0)] :
        over \in {BitLen(m) > 53}}) :
        m \in {IF s <= 0 THEN Shl(n, -s)
               ELSE Carry(Shr(n, s), 1,
                          IF /\ Bit(n, s - 1) = 1
                             /\ \/ sticky
                                \/ \E k \in 0..(s - 2) : Bit(n, k) = 1
                                \/ Bit(n, s) = 1
                          THEN 1 ELSE 0)}}) :
        s \in {BitLen(n) - 53}}) :
        n \in {n0}})

\* x * y
DMul(x0, y0) ==
    Only({IF BitLen(x.m) = 0 \/ BitLen(y.m) = 0
          THEN [sign |-> 1, m |-> <<0, 0, 0, 0>>, e |-> 0]
          ELSE Round53(x.sign * y.sign,
                       Carry([k \in 1..8 |->
                                 Limb(x.m, 1) * Limb(y.m, k)
                                 + Limb(x.m, 2) * Limb(y.m, k - 1)
                                 + Limb(x.m, 3) * Limb(y.m, k - 2)
                                 + Limb(x.m, 4) * Limb(y.m, k - 3)], 1, 0),
                       x.e + y.e, FALSE) :
          x \in {x0}, y \in {y0}})

\* x + y, for doubles whose exponents are less than 64 apart
DAdd(x0, y0) ==
    Only({Only({Only({Only({
        IF BitLen(x.m) = 0 THEN y
        ELSE IF BitLen(y.m) = 0 THEN x
        ELSE IF x.sign = y.sign
        THEN Round53(x.sign,
                     Carry([i \in 1..9 |-> Limb(a, i) + Limb(b, i)], 1, 0),
                     e, FALSE)
        ELSE Round53(IF d = 1 THEN x.sign ELSE y.sign,
                     Carry([i \in 1..9 |-> d * (Limb(a, i) - Limb(b, i))],
                           1, 0),
                     e, FALSE) :
        d \in {IF BigGE(a, b) THEN 1 ELSE -1}}) :
        a \in {Shl(x.m, x.e - e)}, b \in {Shl(y.m, y.e - e)}}) :
        e \in {IF x.e < y.e THEN x.e ELSE y.e}}) :
        x \in {x0}, y \in {y0}})

\* the limbs k, k - 1, ..., 1 of the quotient of the long division of u by
\* v, put into q, and the remainder that is left: v has four limbs, the
\* highest at least LIMB / 2, and u < v * LIMB, so that the limb estimated
\* from the two highest limbs of u is at most 2 too big
RECURSIVE DivLimbs(_, _, _, _)
DivLimbs(u, v, k, q) ==
    IF k = 0 THEN <<q, u>>
    ELSE LET Times(c) == Carry([i \in 1..4 |-> c * v[i]], 1, 0)
         IN  Only({Only({Only({Only({Only({
                  DivLimbs(<<0>> \o SubSeq(rest, 1, 4), v, k - 1,
                           [q EXCEPT ![k] = d]) :
                  rest \in {Carry([i \in 1..5 |-> Limb(u, i) - Limb(taken, i)],
                                  1, 0)}}) :
                  taken \in {Times(d)}}) :
                  d \in {c \in {top - 2, top - 1, top} :
                            /\ c >= 0 /\ BigGE(u, Times(c))
                            /\ c = top \/ ~BigGE(u, Times(c + 1))}}) :
                  top \in {IF hat < LIMB THEN hat ELSE LIMB - 1}}) :
                  hat \in {(Limb(u, 5) * LIMB + Limb(u, 4)) \div v[4]}})

\* x / y, for y other than 0
DDiv(x0, y0) ==
    Only({Only({
        IF BitLen(x.m) = 0 THEN x
        ELSE Round53(IF x.sign = y.sign THEN 1 ELSE -1, d[1],
                     x.e - y.e - 56, BitLen(d[2]) > 0) :
        d \in {DivLimbs(Shl(x.m, 3), Shl(y.m, 3), 5, <<0, 0, 0, 0, 0>>)}}) :
        x \in {x0}, y \in {y0}})

\* the double of a whole number below 2^31 in size
DInt(k) ==
    Round53(IF k < 0 THEN -1 ELSE 1,
            <<Abs(k) % LIMB, (Abs(k) \div LIMB) % LIMB,
              Abs(k) \div (LIMB * LIMB)>>,
            0, FALSE)

\* the double that the decimal number x is read as
Double(x) == DDiv(DInt(x[1]), DInt(x[2]))

\* x > y
DGt(x0, y0) ==
    \E x \in {x0}, y \in {y0} :
        \E zx \in {BitLen(x.m) = 0}, zy \in {BitLen(y.m) = 0} :
            IF zx THEN ~zy /\ y.sign = -1
            ELSE IF zy THEN x.sign = 1
            ELSE IF x.sign # y.sign THEN x.sign = 1
            ELSE IF x.sign = 1
            THEN \/ x.e > y.e
                 \/ x.e = y.e /\ x.m # y.m /\ BigGE(x.m, y.m)
            ELSE \/ y.e > x.e
                 \/ x.e = y.e /\ x.m # y.m /\ BigGE(y.m, x.m)

\* f"{x:.1%}": x * 100 with one decimal, in tenths of a percent
DPct1(x0) ==
    Only({Only({Only({Only({
        IF BitLen(x.m) = 0 THEN 0
        ELSE p.sign * (Limb(q, 1) + LIMB * Limb(q, 2)
                       + (IF /\ Bit(n, s - 1) = 1
                             /\ \/ \E k \in 0..(s - 2) : Bit(n, k) = 1
                                \/ Bit(n, s) = 1
                          THEN 1 ELSE 0)) :
        q \in {Shr(n, s)}}) :
        n \in {Carry([i \in 1..4 |-> 10 * p.m[i]], 1, 0)}, s \in {-p.e}}) :
        p \in {DMul(x, DInt(100))}}) :
        x \in {x0}})

\* f"{x:.1%}" of the float with the exact value x, as held: off a tie
\* the double rounds as x does, since the two are less than 2^-40 apart and
\* x * 1000 is at least 2^-32 away from the tie
Percent(x, held) == IF RoundingTie(x) THEN held.percent ELSE Pct1(x)

(***************************************************************************)
(* Python str and Optional.                                                *)
(***************************************************************************)
None == <<>>
Some(v) == <<v>>
IsNone(o) == o = <<>>

Capitals ==
    <<"A", "B", "C", "D", "E", "F", "G", "H", "I", "J", "K", "L", "M", "N",
      "O", "P", "Q", "R", "S", "T", "U", "V", "W", "X", "Y", "Z">>
Smalls ==
    <<"a", "b", "c", "d", "e", "f", "g", "h", "i", "j", "k", "l", "m", "n",
      "o", "p", "q", "r", "s", "t", "u", "v", "w", "x", "y", "z">>

\* the letters that upper() and lower() change, each with what it becomes
UpperMap ==
    [c \in {Smalls[i] : i \in DOMAIN Smalls} |->
        Capitals[CHOOSE i \in DOMAIN Smalls : Smalls[i] = c]]
LowerMap ==
    [c \in {Capitals[i] : i \in DOMAIN Capitals} |->
        Smalls[CHOOSE i \in DOMAIN Capitals : Capitals[i] = c]]

LowerChar(c) == IF c \in DOMAIN LowerMap THEN LowerMap[c] ELSE c

StrUpper(s) ==
    [i \in DOMAIN s |->
        IF s[i] \in DOMAIN UpperMap THEN UpperMap[s[i]] ELSE s[i]]
StrLower(s) == [i \in DOMAIN s |-> LowerChar(s[i])]
StrCount(s, c) == Cardinality({i \in DOMAIN s : s[i] = c})

\* the truth value of an Optional[str]: None and "" are false
TruthyStr(o) == ~IsNone(o) /\ o[1] # <<>>

(***************************************************************************)
(* TeamStrengthTool._run                                                   *)
(***************************************************************************)
BASE_SCORE == Rat(1, 2)

\* the weight config.py gives to recent form, in place of the 0.2 of the code
ConfiguredFormWeight == Rat(35, 100)

FORM_WEIGHT == Rat(2, 10)
HOME_BONUS == Rat(1, 10)

Factor(kind, text) == [kind |-> kind, text |-> text]

\* the wins counted without upper(): only a capital W counts
FormScoreCaseSensitive(form) == Rat(StrCount(form, "W"), Len(form))

\* a form with nothing but blanks scored 0.5, like the unreachable else of the
\* code's conditional expression
FormScoreBlankHalf(form) ==
    IF \A i \in DOMAIN form : form[i] = " " THEN Rat(1, 2)
    ELSE Rat(StrCount(StrUpper(form), "W"), Len(form))

\* team1_wins / len(team1_recent_form)
FormScore(form) == Rat(StrCount(StrUpper(form), "W"), Len(form))

\* the score after the recent-form step
WithForm(score, form) ==
    IF TruthyStr(form)
    THEN RAdd(score, RMul(FormScore(form[1]), FORM_WEIGHT))
    ELSE score

\* the names compared as they are, without lower()
HomeSideCaseSensitive(a) ==
    IF TruthyStr(a.home_team)
    THEN IF a.home_team[1] = a.team1 THEN 1
         ELSE IF a.home_team[1] = a.team2 THEN 2
         ELSE 0
    ELSE 0

\* which team the home_team step credits: 1, 2 or 0 for neither
HomeSide(a) ==
    IF TruthyStr(a.home_team)
    THEN IF StrLower(a.home_team[1]) = StrLower(a.team1) THEN 1
         ELSE IF StrLower(a.home_team[1]) = StrLower(a.team2) THEN 2
         ELSE 0
    ELSE 0

\* a head-to-head note counted as half a home bonus for team1
WithHomeAndHeadToHead(score, side, a) ==
    LET s == IF HomeSide(a) = side THEN RAdd(score, HOME_BONUS) ELSE score
    IN  IF side = 1 /\ TruthyStr(a.head_to_head)
        THEN RAdd(s, RMul(HOME_BONUS, Rat(1, 2))) ELSE s

WithHome(score, side, a) ==
    IF HomeSide(a) = side THEN RAdd(score, HOME_BONUS) ELSE score

\* the list of factors, in the order the code appends them
FactorsOf(a) ==
    (IF TruthyStr(a.team1_recent_form)
        THEN <<Factor("Team1 recent form", a.team1_recent_form[1])>> ELSE <<>>)
    \o (IF TruthyStr(a.team2_recent_form)
        THEN <<Factor("Team2 recent form", a.team2_recent_form[1])>> ELSE <<>>)
    \o (IF HomeSide(a) = 1 THEN <<Factor("has home advantage", a.team1)>>
        ELSE IF HomeSide(a) = 2 THEN <<Factor("has home advantage", a.team2)>>
        ELSE <<>>)
    \o (IF TruthyStr(a.head_to_head)
        THEN <<Factor("Head-to-head", a.head_to_head[1])>> ELSE <<>>)
    \o (IF TruthyStr(a.additional_context)
        THEN <<Factor("Additional context", a.additional_context[1])>> ELSE <<>>)

\* the scores left as they are: the division by the total forgotten
NotNormalized(score, total) == score

\* a raw score after normalization
Normalized(score, total) ==
    IF RGt(total, Zero) THEN RDiv(score, total) ELSE score

\* what one call computes from its arguments: whether it raised, the values
\* its local variables end with, and the text it returns
TeamStrengthFrame(a) ==
    LET raw1 == WithHome(WithForm(BASE_SCORE, a.team1_recent_form), 1, a)
        raw2 == WithHome(WithForm(BASE_SCORE, a.team2_recent_form), 2, a)
        total == RAdd(raw1, raw2)
        team1_score == Normalized(raw1, total)
        team2_score == Normalized(raw2, total)
        factors == FactorsOf(a)
    IN  [raised |-> "none",
         locals |-> [raw1 |-> raw1, raw2 |-> raw2, total |-> total,
                     team1_score |-> team1_score,
                     team2_score |-> team2_score,
                     factors |-> factors,
                     analysis |-> [team1_strength_score |-> Round3(team1_score),
                                   team2_strength_score |-> Round3(team2_score)]],
         ret |-> [team1 |-> a.team1,
                  team1_pct |-> Pct1(team1_score),
                  team2 |-> a.team2,
                  team2_pct |-> Pct1(team2_score),
                  factors |-> IF factors # <<>> THEN factors
                              ELSE <<Factor("Limited data available", <<>>)>>]]

\* the list of factors kept on the tool object and appended to by every call
TeamStrengthRunSharedFactors(self, a) ==
    LET f == TeamStrengthFrame(a)
        kept == IF "factors" \in DOMAIN self THEN self.factors ELSE <<>>
        factors == kept \o f.locals.factors
    IN  [self |-> [name |-> self.name, factors |-> factors],
         raised |-> f.raised,
         locals |-> [f.locals EXCEPT !.factors = factors],
         ret |-> [f.ret EXCEPT !.factors =
                      IF factors # <<>> THEN factors ELSE f.ret.factors]]

\* _run(self, ...): the call reads and writes nothing of the tool object
TeamStrengthRun(self, a) ==
    LET f == TeamStrengthFrame(a)
    IN  [self |-> self, raised |-> f.raised, locals |-> f.locals, ret |-> f.ret]

(***************************************************************************)
(* OddsAnalysisTool._run                                                   *)
(***************************************************************************)
EV_THRESHOLD == Rat(5, 100)
\* a draw taken to be as likely as one in four
DRAW_PROB == Rat(1, 10)
REMAINING_PROB == Rat(9, 10)

\* the truth value of an Optional[float]: None and 0.0 are false
TruthyNum(o) == ~IsNone(o) /\ o[1] # Zero

\* the implied probability of fractional odds, 1 / (odds + 1), in place of
\* that of decimal odds
FractionalImpliedProb(odds) ==
    IF RGt(odds, Zero) THEN RDiv(One, RAdd(odds, One)) ELSE Zero

\* only odds of exactly 0 guarded: 1.0 / odds if odds != 0 else 0
ImpliedProbNonZero(odds) == IF odds # Zero THEN RDiv(One, odds) ELSE Zero

\* 1.0 / odds if odds > 0 else 0
ImpliedProb(odds) == IF RGt(odds, Zero) THEN RDiv(One, odds) ELSE Zero

\* 1.0 / draw_odds if draw_odds and draw_odds > 0 else 0, and 0 without a draw
DrawImpliedProb(draw_odds) ==
    IF TruthyNum(draw_odds) THEN ImpliedProb(draw_odds[1]) ELSE Zero

\* the strength taken as it is, not as a share of the total
StrengthAsGiven(strength, total_strength) == strength

\* the share without the even split: the strength itself when the total is 0
StrengthShareNoFallback(strength, total_strength) ==
    IF total_strength # Zero THEN RDiv(strength, total_strength) ELSE strength

\* the share of one strength in the total, 0.5 when the total is not positive
StrengthShare(strength, total_strength) ==
    IF RGt(total_strength, Zero) THEN RDiv(strength, total_strength)
    ELSE Rat(1, 2)

\* the draw step without the scaling of the team probabilities
TeamActualProbUnscaled(share, draw_odds) == share

\* a team's actual probability after the draw step
TeamActualProb(share, draw_odds) ==
    IF TruthyNum(draw_odds) THEN RMul(share, REMAINING_PROB) ELSE share

DrawActualProb(draw_odds) == IF TruthyNum(draw_odds) THEN DRAW_PROB ELSE Zero

\* the profit of a win only: actual probability * (odds - 1)
ProfitOnly(actual_prob, odds) == RMul(actual_prob, RSub(odds, One))

\* (actual probability * odds) - 1
ExpectedValue(actual_prob, odds) == RSub(RMul(actual_prob, odds), One)

DrawExpectedValue(actual_prob, draw_odds) ==
    IF TruthyNum(draw_odds) THEN ExpectedValue(actual_prob, draw_odds[1])
    ELSE Zero

\* the odds and the strengths of the calls made here
TeamOdds == {Rat(-2, 1), Zero, Rat(1, 2), One, Rat(18, 10), Rat(2, 1),
             Rat(205, 100), Rat(21, 10), Rat(25, 10), Rat(4, 1)}
DrawOdds == {None, Some(Zero), Some(Rat(-2, 1)), Some(One), Some(Rat(3, 1)),
             Some(Rat(52, 5)), Some(Rat(21, 2)), Some(Rat(53, 5)),
             Some(Rat(12, 1))}
Strengths == {Rat(-1, 2), Zero, Rat(1, 4), Rat(45, 100), Rat(1, 2),
              Rat(55, 100), Rat(3, 4), One}

\* the double that the call with the arguments a holds for an outcome
\* ("Team1", "Team2", "Draw"): its implied probability, its actual
\* probability or its EV, computed by the operations of the code
OddsAnalysisDouble(a, outcome, value) ==
    Only({Only({Only({Only({
        CASE value = "implied" ->
               IF (outcome = "Draw" => draw) /\ DGt(odds, zero)
               THEN DDiv(DInt(1), odds) ELSE zero
          [] value = "actual" -> actual_prob
          [] value = "ev" ->
               IF outcome = "Draw" /\ ~draw THEN zero
               ELSE DAdd(DMul(actual_prob, odds), DInt(-1)) :
        actual_prob \in
            {IF outcome = "Draw"
             THEN IF draw THEN Double(DRAW_PROB) ELSE zero
             ELSE IF draw THEN DMul(share, Double(REMAINING_PROB))
                  ELSE share}}) :
        share \in {IF DGt(total_strength, zero)
                   THEN DDiv(strength, total_strength)
                   ELSE Double(Rat(1, 2))}}) :
        odds \in {IF outcome = "Team1" THEN Double(a.team1_odds)
                  ELSE IF outcome = "Team2" THEN Double(a.team2_odds)
                  ELSE IF draw THEN Double(a.draw_odds[1]) ELSE zero},
        total_strength \in
            {DAdd(Double(a.team1_strength), Double(a.team2_strength))},
        strength \in {Double(IF outcome = "Team1" THEN a.team1_strength
                             ELSE a.team2_strength)}}) :
        zero \in {DInt(0)}, draw \in {TruthyNum(a.draw_odds)}})

\* the exact value of the same float
OddsAnalysisExact(a, outcome, value) ==
    LET odds == IF outcome = "Team1" THEN a.team1_odds ELSE a.team2_odds
        strength == IF outcome = "Team1" THEN a.team1_strength
                    ELSE a.team2_strength
        actual_prob ==
            IF outcome = "Draw" THEN DrawActualProb(a.draw_odds)
            ELSE TeamActualProb(
                     StrengthShare(strength, RAdd(a.team1_strength,
                                                  a.team2_strength)),
                     a.draw_odds)
    IN  CASE value = "implied" ->
               IF outcome = "Draw" THEN DrawImpliedProb(a.draw_odds)
               ELSE ImpliedProb(odds)
          [] value = "actual" -> actual_prob
          [] value = "ev" ->
               IF outcome = "Draw"
               THEN DrawExpectedValue(actual_prob, a.draw_odds)
               ELSE ExpectedValue(actual_prob, odds)

\* the arguments and the outcome that give the same floats as the outcome of
\* the call with the arguments a, with everything the floats do not depend
\* on left out: a team's floats depend on the two strengths, on its odds and
\* on whether there is a draw, those of the draw on the draw odds
FloatKey(a, outcome) ==
    LET draw == IF TruthyNum(a.draw_odds) THEN Some(One) ELSE None
    IN  CASE outcome = "Team1" ->
               <<[team1_odds |-> a.team1_odds, team2_odds |-> One,
                  draw_odds |-> draw, team1_strength |-> a.team1_strength,
                  team2_strength |-> a.team2_strength], "Team1">>
          [] outcome = "Team2" ->
               <<[team1_odds |-> a.team2_odds, team2_odds |-> One,
                  draw_odds |-> draw, team1_strength |-> a.team2_strength,
                  team2_strength |-> a.team1_strength], "Team1">>
          [] outcome = "Draw" ->
               <<[team1_odds |-> One, team2_odds |-> One,
                  draw_odds |-> a.draw_odds, team1_strength |-> Zero,
                  team2_strength |-> Zero], "Draw">>

\* the floats of the calls made here whose double decides, computed once
\* (@@ makes the function a table of its values)
DecidingFloats ==
    LET teams == [team1_odds : TeamOdds, team2_odds : {One},
                  draw_odds : {None, Some(One)},
                  team1_strength : Strengths, team2_strength : Strengths]
        draws == [team1_odds : {One}, team2_odds : {One}, draw_odds : DrawOdds,
                  team1_strength : {Zero}, team2_strength : {Zero}]
        floats == ((teams \X {"Team1"}) \cup (draws \X {"Draw"}))
                  \X {"implied", "actual", "ev"}
    IN  [f \in {f \in floats :
                   LET x == OddsAnalysisExact(f[1][1], f[1][2], f[2])
                   IN  RoundingTie(x) \/ (f[2] = "ev" /\ x = EV_THRESHOLD)}
            |-> Only({[double |-> double, percent |-> DPct1(double)] :
                      double \in {OddsAnalysisDouble(f[1][1], f[1][2],
                                                     f[2])}})] @@ <<>>

\* the float of an outcome of the call with the arguments a, for a float
\* whose double decides
HeldFloat(a, outcome, value) ==
    DecidingFloats[<<FloatKey(a, outcome), value>>]

\* 0.05 as the code holds it
EV_THRESHOLD_DOUBLE == Double(EV_THRESHOLD)

\* the test that makes an outcome a value bet, ev > 0.05, where ev is the
\* exact value of the float held: off the threshold the double compares as
\* ev does, since the two are less than 2^-40 apart
IsValueBet(ev, held) ==
    IF ev # EV_THRESHOLD THEN RGt(ev, EV_THRESHOLD)
    ELSE DGt(held.double, EV_THRESHOLD_DOUBLE)

\* one outcome as the call with the arguments a prints it: the odds as given,
\* the rest as .1%
Outcome(name, odds, implied, actual, ev, a) ==
    [outcome |-> name, odds |-> odds,
     implied |-> Percent(implied, HeldFloat(a, name, "implied")),
     actual |-> Percent(actual, HeldFloat(a, name, "actual")),
     ev |-> Percent(ev, HeldFloat(a, name, "ev"))]

\* the draw recommendation appended first
RecommendationsDrawFirst(o1, ev1, o2, ev2, od, evd, a) ==
    (IF IsValueBet(evd, HeldFloat(a, "Draw", "ev"))
        /\ TruthyNum(a.draw_odds) THEN <<od>> ELSE <<>>)
    \o (IF IsValueBet(ev1, HeldFloat(a, "Team1", "ev")) THEN <<o1>>
        ELSE <<>>)
    \o (IF IsValueBet(ev2, HeldFloat(a, "Team2", "ev")) THEN <<o2>>
        ELSE <<>>)

\* the recommendations of the call with the arguments a, in the order the
\* code appends them
Recommendations(o1, ev1, o2, ev2, od, evd, a) ==
    (IF IsValueBet(ev1, HeldFloat(a, "Team1", "ev")) THEN <<o1>>
     ELSE <<>>)
    \o (IF IsValueBet(ev2, HeldFloat(a, "Team2", "ev")) THEN <<o2>>
        ELSE <<>>)
    \o (IF IsValueBet(evd, HeldFloat(a, "Draw", "ev"))
           /\ TruthyNum(a.draw_odds) THEN <<od>> ELSE <<>>)

\* the draw line printed only when the draw is a value bet
ResultLinesDrawIfValue(o1, o2, od, draw_odds) ==
    <<o1, o2>>
    \o (IF TruthyNum(draw_odds) /\ RGt(Rat(od.ev, 1000), EV_THRESHOLD)
        THEN <<od>> ELSE <<>>)

\* the per-outcome lines of the result
ResultLines(o1, o2, od, draw_odds) ==
    <<o1, o2>> \o (IF TruthyNum(draw_odds) THEN <<od>> ELSE <<>>)

\* the closing part of the result
Verdict(recommendations) ==
    IF recommendations # <<>> THEN "Value Bet Recommendations"
    ELSE "No significant value bets identified (EV < 5%)"

\* what one call computes from its arguments: whether it raised, the values
\* its local variables end with, and the text it returns
OddsAnalysisFrame(a) ==
    LET team1_implied_prob == ImpliedProb(a.team1_odds)
        team2_implied_prob == ImpliedProb(a.team2_odds)
        draw_implied_prob == DrawImpliedProb(a.draw_odds)
        total_strength == RAdd(a.team1_strength, a.team2_strength)
        team1_actual_prob ==
            TeamActualProb(StrengthShare(a.team1_strength, total_strength),
                           a.draw_odds)
        team2_actual_prob ==
            TeamActualProb(StrengthShare(a.team2_strength, total_strength),
                           a.draw_odds)
        draw_actual_prob == DrawActualProb(a.draw_odds)
        team1_ev == ExpectedValue(team1_actual_prob, a.team1_odds)
        team2_ev == ExpectedValue(team2_actual_prob, a.team2_odds)
        draw_ev == DrawExpectedValue(draw_actual_prob, a.draw_odds)
    IN  Only({Only({
            [raised |-> "none",
             locals |-> [team1_implied_prob |-> team1_implied_prob,
                         team2_implied_prob |-> team2_implied_prob,
                         draw_implied_prob |-> draw_implied_prob,
                         total_strength |-> total_strength,
                         team1_actual_prob |-> team1_actual_prob,
                         team2_actual_prob |-> team2_actual_prob,
                         draw_actual_prob |-> draw_actual_prob,
                         team1_ev |-> team1_ev,
                         team2_ev |-> team2_ev,
                         draw_ev |-> draw_ev,
                         recommendations |-> recommendations],
             ret |-> [lines |-> ResultLines(o1, o2, od, a.draw_odds),
                      recommendations |-> recommendations,
                      verdict |-> Verdict(recommendations)]] :
            recommendations \in
                {Recommendations(o1, team1_ev, o2, team2_ev, od, draw_ev,
                                 a)}}) :
            o1 \in {Outcome("Team1", Some(a.team1_odds), team1_implied_prob,
                            team1_actual_prob, team1_ev, a)},
            o2 \in {Outcome("Team2", Some(a.team2_odds), team2_implied_prob,
                            team2_actual_prob, team2_ev, a)},
            od \in {Outcome("Draw", a.draw_odds, draw_implied_prob,
                            draw_actual_prob, draw_ev, a)}})

\* _run(self, ...): the call reads and writes nothing of the tool object
OddsAnalysisRun(self, a) ==
    Only({[self |-> self, raised |-> f.raised, locals |-> f.locals,
           ret |-> f.ret] : f \in {OddsAnalysisFrame(a)}})

(***************************************************************************)
(* The two _run methods statement by statement, for calls that run at the  *)
(* same time.  A frame is one invocation: the tool it runs, its arguments, *)
(* the statement it is at (pc) and its local variables; ret is filled in   *)
(* by the return statement.  Threads switch between statements; the        *)
(* statements of one call touch its frame only.                            *)
(***************************************************************************)
Frame(tool, a, pc) == [tool |-> tool, args |-> a, pc |-> pc, locals |-> <<>>]

\* the assignment name = v in a frame's local variables
Bind(l, name, v) ==
    [n \in DOMAIN l \cup {name} |-> IF n = name THEN v ELSE l[n]]

FormFactor(kind, form) ==
    IF TruthyStr(form) THEN <<Factor(kind, form[1])>> ELSE <<>>

HomeFactor(a) ==
    IF HomeSide(a) = 1 THEN <<Factor("has home advantage", a.team1)>>
    ELSE IF HomeSide(a) = 2 THEN <<Factor("has home advantage", a.team2)>>
    ELSE <<>>

\* the statement of TeamStrengthTool._run that a frame is at
StrengthStatement(f) ==
    LET a == f.args
        l == f.locals
    IN  CASE f.pc = "start" ->
               [f EXCEPT !.pc = "form1",
                         !.locals = [team1_score |-> BASE_SCORE,
                                     team2_score |-> BASE_SCORE,
                                     factors |-> <<>>]]
          [] f.pc = "form1" ->
               [f EXCEPT !.pc = "form2",
                         !.locals =
                             [l EXCEPT !.team1_score =
                                           WithForm(@, a.team1_recent_form),
                                       !.factors =
                                           @ \o FormFactor("Team1 recent form",
                                                           a.team1_recent_form)]]
          [] f.pc = "form2" ->
               [f EXCEPT !.pc = "home",
                         !.locals =
                             [l EXCEPT !.team2_score =
                                           WithForm(@, a.team2_recent_form),
                                       !.factors =
                                           @ \o FormFactor("Team2 recent form",
                                                           a.team2_recent_form)]]
          [] f.pc = "home" ->
               [f EXCEPT !.pc = "context",
                         !.locals =
                             [l EXCEPT !.team1_score = WithHome(@, 1, a),
                                       !.team2_score = WithHome(@, 2, a),
                                       !.factors = @ \o HomeFactor(a)]]
          [] f.pc = "context" ->
               [f EXCEPT !.pc = "normalize",
                         !.locals =
                             [l EXCEPT !.factors =
                                 @ \o FormFactor("Head-to-head", a.head_to_head)
                                   \o FormFactor("Additional context",
                                                 a.additional_context)]]
          [] f.pc = "normalize" ->
               LET total == RAdd(l.team1_score, l.team2_score)
               IN  [f EXCEPT !.pc = "return",
                             !.locals =
                                 Bind([l EXCEPT
                                          !.team1_score = Normalized(@, total),
                                          !.team2_score = Normalized(@, total)],
                                      "total", total)]
          [] f.pc = "return" ->
               [tool |-> f.tool, args |-> a, pc |-> "done",
                locals |-> Bind(l, "analysis",
                                [team1_strength_score |-> Round3(l.team1_score),
                                 team2_strength_score |-> Round3(l.team2_score)]),
                ret |-> [team1 |-> a.team1,
                         team1_pct |-> Pct1(l.team1_score),
                         team2 |-> a.team2,
                         team2_pct |-> Pct1(l.team2_score),
                         factors |->
                             IF l.factors # <<>> THEN l.factors
                             ELSE <<Factor("Limited data available", <<>>)>>]]

\* the statement of OddsAnalysisTool._run that a frame is at
OddsStatement(f) ==
    LET a == f.args
        l == f.locals
    IN  CASE f.pc = "implied" ->
               [f EXCEPT !.pc = "strengths",
                         !.locals =
                             [team1_implied_prob |-> ImpliedProb(a.team1_odds),
                              team2_implied_prob |-> ImpliedProb(a.team2_odds),
                              draw_implied_prob |->
                                  DrawImpliedProb(a.draw_odds)]]
          [] f.pc = "strengths" ->
               LET total_strength == RAdd(a.team1_strength, a.team2_strength)
               IN  [f EXCEPT !.pc = "draw",
                             !.locals =
                                 Bind(Bind(Bind(l, "total_strength",
                                                total_strength),
                                           "team1_actual_prob",
                                           StrengthShare(a.team1_strength,
                                                         total_strength)),
                                      "team2_actual_prob",
                                      StrengthShare(a.team2_strength,
                                                    total_strength))]
          [] f.pc = "draw" ->
               [f EXCEPT !.pc = "ev",
                         !.locals =
                             Bind([l EXCEPT
                                      !.team1_actual_prob =
                                          TeamActualProb(@, a.draw_odds),
                                      !.team2_actual_prob =
                                          TeamActualProb(@, a.draw_odds),
                                      !.draw_implied_prob =
                                          IF TruthyNum(a.draw_odds) THEN @
                                          ELSE Zero],
                                  "draw_actual_prob",
                                  DrawActualProb(a.draw_odds))]
          [] f.pc = "ev" ->
               [f EXCEPT !.pc = "recommend",
                         !.locals =
                             Bind(Bind(Bind(l, "team1_ev",
                                            ExpectedValue(l.team1_actual_prob,
                                                          a.team1_odds)),
                                       "team2_ev",
                                       ExpectedValue(l.team2_actual_prob,
                                                     a.team2_odds)),
                                  "draw_ev",
                                  DrawExpectedValue(l.draw_actual_prob,
                                                    a.draw_odds))]
          [] f.pc = "recommend" ->
               [f EXCEPT !.pc = "return",
                         !.locals =
                             Bind(l, "recommendations",
                                  Recommendations(
                                      Outcome("Team1", Some(a.team1_odds),
                                              l.team1_implied_prob,
                                              l.team1_actual_prob, l.team1_ev, a),
                                      l.team1_ev,
                                      Outcome("Team2", Some(a.team2_odds),
                                              l.team2_implied_prob,
                                              l.team2_actual_prob, l.team2_ev, a),
                                      l.team2_ev,
                                      Outcome("Draw", a.draw_odds,
                                              l.draw_implied_prob,
                                              l.draw_actual_prob, l.draw_ev, a),
                                      l.draw_ev, a))]
          [] f.pc = "return" ->
               [tool |-> f.tool, args |-> a, pc |-> "done", locals |-> l,
                ret |-> [lines |->
                             ResultLines(
                                 Outcome("Team1", Some(a.team1_odds),
                                         l.team1_implied_prob,
                                         l.team1_actual_prob, l.team1_ev, a),
                                 Outcome("Team2", Some(a.team2_odds),
                                         l.team2_implied_prob,
                                         l.team2_actual_prob, l.team2_ev, a),
                                 Outcome("Draw", a.draw_odds,
                                         l.draw_implied_prob,
                                         l.draw_actual_prob, l.draw_ev, a),
                                 a.draw_odds),
                         recommendations |-> l.recommendations,
                         verdict |-> Verdict(l.recommendations)]]

\* the local variables kept as attributes of the tool object, which every
\* call on the tool then shares
TeamStrengthStepShared(self, f) ==
    LET g == IF f.pc = "start" THEN f ELSE [f EXCEPT !.locals = self.locals]
        h == StrengthStatement(g)
    IN  [self |-> [name |-> self.name, locals |-> h.locals], frame |-> h]

\* one statement of TeamStrengthTool._run(self, ...): it works on the frame
\* and leaves the tool object as it is
TeamStrengthStep(self, f) == [self |-> self, frame |-> StrengthStatement(f)]

(***************************************************************************)
(* The tool objects, as get_all_tools() makes them.                        *)
(***************************************************************************)
TeamStrengthTool == [name |-> "analyze_team_strength"]
OddsAnalysisTool == [name |-> "analyze_odds_value"]

get_all_tools == <<TeamStrengthTool, OddsAnalysisTool>>

(***************************************************************************)
(* The inputs of the calls.                                                *)
(***************************************************************************)
RECURSIVE StringsUpTo(_, _)
StringsUpTo(chars, n) ==
    IF n = 0 THEN {<<>>}
    ELSE LET shorter == StringsUpTo(chars, n - 1)
         IN  shorter \cup {Append(s, c) : s \in shorter, c \in chars}

\* recent-form strings: every string of at most MaxFormLen results, a blank
\* one, and the two of the specification's scenario A
Forms ==
    StringsUpTo({"W", "w", "L"}, MaxFormLen)
    \cup {<<" ">>, <<"W", "W", "L", "W", "W">>, <<"W", "L", "W", "W", "L">>}

StrengthArgs ==
    LET OptForms == {None} \cup {Some(f) : f \in Forms}
        OptTexts == {None, Some(<<"z">>)}
    IN  [team1 : {<<"A", "b">>, <<>>}, team2 : {<<"C", "d">>, <<"A", "B">>},
         team1_recent_form : OptForms, team2_recent_form : OptForms,
         team1_record : OptTexts, team2_record : OptTexts,
         head_to_head : OptTexts,
         home_team : {None, Some(<<>>), Some(<<"a", "b">>), Some(<<"C", "D">>),
                      Some(<<"Z", "z">>)},
         additional_context : OptTexts]

OddsArgs ==
    [team1_odds : TeamOdds, team2_odds : TeamOdds, draw_odds : DrawOdds,
     team1_strength : Strengths, team2_strength : Strengths]

(***************************************************************************)
(* The settings of src/config.py, as the module defines them.              *)
(***************************************************************************)
MIN_EV_THRESHOLD == Rat(5, 100)
MIN_CONFIDENCE == Rat(60, 100)

TEAM_STRENGTH_WEIGHTS ==
    [recent_form |-> Rat(35, 100), overall_record |-> Rat(25, 100),
     head_to_head |-> Rat(20, 100), home_advantage |-> Rat(15, 100),
     injury_impact |-> Rat(5, 100)]

Config ==
    [MIN_EV_THRESHOLD |-> MIN_EV_THRESHOLD, MIN_CONFIDENCE |-> MIN_CONFIDENCE,
     TEAM_STRENGTH_WEIGHTS |-> TEAM_STRENGTH_WEIGHTS]

(***************************************************************************)
(* BettingAgent of src/betting_agent.py.  The agent of create_agent and    *)
(* the language model behind it are outside the program: a call of         *)
(* agent.invoke is any one of the results listed in AgentResults.  A       *)
(* Python value that the code tests the type of is a record of its kind    *)
(* and its value; an exception is a record of its type and its message.    *)
(***************************************************************************)
PyStr(s) == [kind |-> "str", value |-> s]
PyDict(d) == [kind |-> "dict", value |-> d]
PyNone == [kind |-> "NoneType", value |-> <<>>]

Exception(type, message) == [type |-> type, message |-> message]

HumanMessage(content) == [type |-> "human", content |-> content]
AIMessage(content) == [type |-> "ai", content |-> content]
ToolMessage(content) == [type |-> "tool", content |-> content]

Digits == <<"0", "1", "2", "3", "4", "5", "6", "7", "8", "9">>

RECURSIVE Pow10(_)
Pow10(k) == IF k = 0 THEN 1 ELSE 10 * Pow10(k - 1)

RECURSIVE NatStr(_)
NatStr(n) ==
    IF n < 10 THEN <<Digits[n + 1]>>
    ELSE NatStr(n \div 10) \o <<Digits[(n % 10) + 1]>>

RECURSIVE NatValue(_)
NatValue(digits) ==
    IF digits = <<>> THEN 0
    ELSE 10 * NatValue(SubSeq(digits, 1, Len(digits) - 1))
         + (CHOOSE i \in DOMAIN Digits : Digits[i] = digits[Len(digits)]) - 1

\* f"{x}" of a float x that has up to six decimals: 2.0, 1.85, -0.5
FloatStr(x) ==
    LET k == CHOOSE k \in 0..6 :
                 /\ Pow10(k) % x[2] = 0
                 /\ \A j \in 0..(k - 1) : Pow10(j) % x[2] # 0
        scaled == (Abs(x[1]) * Pow10(k)) \div x[2]
        decimals == NatStr(scaled % Pow10(k))
    IN  (IF x[1] < 0 THEN <<"-">> ELSE <<>>)
        \o NatStr(scaled \div Pow10(k)) \o <<".">>
        \o (IF k = 0 THEN <<"0">>
            ELSE [i \in 1..(k - Len(decimals)) |-> "0"] \o decimals)

\* float(s) of a text of digits and dots: None where float raises ValueError
ParseFloat(s) ==
    LET dots == {i \in DOMAIN s : s[i] = "."}
        digits == SelectSeq(s, LAMBDA c :
                                   \E i \in DOMAIN Digits : Digits[i] = c)
    IN  IF Cardinality(dots) > 1 \/ digits = <<>> THEN None
        ELSE Some(Rat(NatValue(digits),
                      IF dots = {} THEN 1
                      ELSE Pow10(Len(s) - (CHOOSE i \in dots : TRUE))))

\* pat in text
StartsAt(text, i, pat) ==
    /\ i + Len(pat) - 1 <= Len(text)
    /\ \A j \in DOMAIN pat : text[i + j - 1] = pat[j]
Contains(text, pat) == \E i \in 1..(Len(text) + 1) : StartsAt(text, i, pat)

\* how many characters of the class the text has in a row from position i on
Run(text, i, class) ==
    Cardinality({n \in 1..(Len(text) - i + 1) :
                    \A j \in i..(i + n - 1) : text[j] \in class})

\* re.search(key + r'[:\s=]+([\d.]+)%?', text): group 1 of the leftmost match,
\* None when there is no match
SearchNumber(text, key) ==
    LET Separators == {":", "=", " ", "\n", "\t", "\r"}
        NumberChars == {Digits[i] : i \in DOMAIN Digits} \cup {"."}
        NumberAt(i) == i + Len(key) + Run(text, i + Len(key), Separators)
        hits == {i \in 1..Len(text) :
                    /\ StartsAt(text, i, key)
                    /\ Run(text, i + Len(key), Separators) > 0
                    /\ Run(text, NumberAt(i), NumberChars) > 0}
    IN  IF hits = {} THEN None
        ELSE LET i == CHOOSE h \in hits : \A g \in hits : h <= g
             IN  Some(SubSeq(text, NumberAt(i),
                             NumberAt(i) + Run(text, NumberAt(i), NumberChars) - 1))

\* float(match.group(1)) / 100.0, and the 0.0 the result starts with when there
\* is no match or float raises
Percentage(match) ==
    IF IsNone(match) \/ IsNone(ParseFloat(match[1])) THEN Zero
    ELSE RDiv(ParseFloat(match[1])[1], Rat(100, 1))

\* the fixed text of the prompt, piece by piece
PROMPT ==
    [head |->
        <<"A", "n", "a", "l", "y", "z", "e", " ", "t", "h", "e", " ", "f", "o",
          "l", "l", "o", "w", "i", "n", "g", " ", "b", "e", "t", "t", "i", "n",
          "g", " ", "o", "p", "p", "o", "r", "t", "u", "n", "i", "t", "y", " ",
          "a", "n", "d", " ", "p", "r", "o", "v", "i", "d", "e", " ", "a", " ",
          "c", "o", "m", "p", "r", "e", "h", "e", "n", "s", "i", "v", "e", " ",
          "r", "e", "c", "o", "m", "m", "e", "n", "d", "a", "t", "i", "o", "n",
          ".", "\n", "\n", "M", "A", "T", "C", "H", " ", "D", "E", "T", "A", "I",
          "L", "S", ":", "\n", "-", " ", "T", "e", "a", "m", " ", "1", ":", " ">>,
     team2 |->
        <<"\n", "-", " ", "T", "e", "a", "m", " ", "2", ":", " ">>,
     team1_odds |->
        <<"\n", "-", " ", "T", "e", "a", "m", " ", "1", " ", "O", "d", "d", "s",
          ":", " ">>,
     team2_odds |->
        <<"\n", "-", " ", "T", "e", "a", "m", " ", "2", " ", "O", "d", "d", "s",
          ":", " ">>,
     draw_odds |->
        <<"-", " ", "D", "r", "a", "w", " ", "O", "d", "d", "s", ":", " ">>,
     home_team |->
        <<"-", " ", "H", "o", "m", "e", " ", "T", "e", "a", "m", ":", " ">>,
     team_data |->
        <<"\n", "T", "E", "A", "M", " ", "D", "A", "T", "A", ":", "\n">>,
     item |->
        <<"-", " ">>,
     recent_form |->
        <<" ", "r", "e", "c", "e", "n", "t", " ", "f", "o", "r", "m", ":", " ">>,
     season_record |->
        <<" ", "s", "e", "a", "s", "o", "n", " ", "r", "e", "c", "o", "r", "d",
          ":", " ">>,
     head_to_head |->
        <<"-", " ", "H", "e", "a", "d", "-", "t", "o", "-", "h", "e", "a", "d",
          ":", " ">>,
     additional_context |->
        <<"-", " ", "A", "d", "d", "i", "t", "i", "o", "n", "a", "l", " ", "c",
          "o", "n", "t", "e", "x", "t", ":", " ">>,
     task |->
        <<"\n", "T", "A", "S", "K", ":", "\n", "1", ".", " ", "U", "s", "e", " ",
          "t", "h", "e", " ", "a", "n", "a", "l", "y", "z", "e", "_", "t", "e",
          "a", "m", "_", "s", "t", "r", "e", "n", "g", "t", "h", " ", "t", "o",
          "o", "l", " ", "t", "o", " ", "e", "v", "a", "l", "u", "a", "t", "e",
          " ", "t", "e", "a", "m", " ", "s", "t", "r", "e", "n", "g", "t", "h",
          "s", " ", "b", "a", "s", "e", "d", " ", "o", "n", " ", "t", "h", "e",
          " ", "p", "r", "o", "v", "i", "d", "e", "d", " ", "d", "a", "t", "a",
          "\n", "2", ".", " ", "U", "s", "e", " ", "t", "h", "e", " ", "a", "n",
          "a", "l", "y", "z", "e", "_", "o", "d", "d", "s", "_", "v", "a", "l",
          "u", "e", " ", "t", "o", "o", "l", " ", "t", "o", " ", "c", "o", "m",
          "p", "a", "r", "e", " ", "o", "d", "d", "s", " ", "w", "i", "t", "h",
          " ", "e", "x", "p", "e", "c", "t", "e", "d", " ", "p", "r", "o", "b",
          "a", "b", "i", "l", "i", "t", "i", "e", "s", " ", "a", "n", "d", " ",
          "i", "d", "e", "n", "t", "i", "f", "y", " ", "v", "a", "l", "u", "e",
          " ", "b", "e", "t", "s", "\n", "3", ".", " ", "P", "r", "o", "v", "i",
          "d", "e", " ", "a", " ", "c", "l", "e", "a", "r", " ", "r", "e", "c",
          "o", "m", "m", "e", "n", "d", "a", "t", "i", "o", "n", " ", "o", "n",
          " ", "w", "h", "e", "t", "h", "e", "r", " ", "t", "h", "e", "r", "e",
          "'", "s", " ", "a", " ", "b", "e", "t", "t", "i", "n", "g", " ", "o",
          "p", "p", "o", "r", "t", "u", "n", "i", "t", "y", "\n", "4", ".", " ",
          "C", "o", "n", "s", "i", "d", "e", "r", " ", "o", "d", "d", "s", " ",
          "m", "i", "s", "m", "a", "t", "c", "h", "e", "s", " ", "-", " ", "w",
          "h", "e", "n", " ", "t", "h", "e", " ", "b", "o", "o", "k", "m", "a",
          "k", "e", "r", "'", "s", " ", "o", "d", "d", "s", " ", "d", "o", "n",
          "'", "t", " ", "a", "l", "i", "g", "n", " ", "w", "i", "t", "h", " ",
          "t", "h", "e", " ", "a", "c", "t", "u", "a", "l", " ", "t", "e", "a",
          "m", " ", "s", "t", "r", "e", "n", "g", "t", "h", "\n", "5", ".", " ",
          "C", "a", "l", "c", "u", "l", "a", "t", "e", " ", "e", "x", "p", "e",
          "c", "t", "e", "d", " ", "v", "a", "l", "u", "e", " ", "a", "n", "d",
          " ", "o", "n", "l", "y", " ", "r", "e", "c", "o", "m", "m", "e", "n",
          "d", " ", "b", "e", "t", "s", " ", "w", "i", "t", "h", " ", "p", "o",
          "s", "i", "t", "i", "v", "e", " ", "E", "V", " ", "a", "b", "o", "v",
          "e", " ">>,
     tail |->
        <<"%", "\n", "\n", "P", "l", "e", "a", "s", "e", " ", "p", "r", "o", "v",
          "i", "d", "e", ":", "\n", "-", " ", "A", " ", "c", "l", "e", "a", "r",
          " ", "r", "e", "c", "o", "m", "m", "e", "n", "d", "a", "t", "i", "o",
          "n", " ", "(", "b", "e", "t", " ", "o", "n", " ", "T", "e", "a", "m",
          "1", ",", " ", "T", "e", "a", "m", "2", ",", " ", "D", "r", "a", "w",
          ",", " ", "o", "r", " ", "n", "o", " ", "b", "e", "t", ")", "\n", "-",
          " ", "E", "x", "p", "e", "c", "t", "e", "d", " ", "v", "a", "l", "u",
          "e", " ", "c", "a", "l", "c", "u", "l", "a", "t", "i", "o", "n", "\n",
          "-", " ", "C", "o", "n", "f", "i", "d", "e", "n", "c", "e", " ", "l",
          "e", "v", "e", "l", "\n", "-", " ", "R", "e", "a", "s", "o", "n", "i",
          "n", "g", " ", "f", "o", "r", " ", "y", "o", "u", "r", " ", "d", "e",
          "c", "i", "s", "i", "o", "n", "\n", "-", " ", "A", "n", "y", " ", "r",
          "i", "s", "k", "s", " ", "o", "r", " ", "c", "o", "n", "s", "i", "d",
          "e", "r", "a", "t", "i", "o", "n", "s", "\n", "\n", "F", "o", "r", "m",
          "a", "t", " ", "y", "o", "u", "r", " ", "r", "e", "s", "p", "o", "n",
          "s", "e", " ", "a", "s", " ", "a", " ", "s", "t", "r", "u", "c", "t",
          "u", "r", "e", "d", " ", "a", "n", "a", "l", "y", "s", "i", "s", ".">>]

\* one line of the prompt, written only when the value is truthy
PromptLine(label, o) ==
    IF TruthyStr(o) THEN label \o o[1] \o <<"\n">> ELSE <<>>

_build_analysis_prompt(a) ==
    PROMPT.head \o a.team1 \o PROMPT.team2 \o a.team2
    \o PROMPT.team1_odds \o FloatStr(a.team1_odds)
    \o PROMPT.team2_odds \o FloatStr(a.team2_odds) \o <<"\n">>
    \o (IF TruthyNum(a.draw_odds)
        THEN PROMPT.draw_odds \o FloatStr(a.draw_odds[1]) \o <<"\n">>
        ELSE <<>>)
    \o PromptLine(PROMPT.home_team, a.home_team)
    \o PROMPT.team_data
    \o PromptLine(PROMPT.item \o a.team1 \o PROMPT.recent_form,
                  a.team1_recent_form)
    \o PromptLine(PROMPT.item \o a.team2 \o PROMPT.recent_form,
                  a.team2_recent_form)
    \o PromptLine(PROMPT.item \o a.team1 \o PROMPT.season_record, a.team1_record)
    \o PromptLine(PROMPT.item \o a.team2 \o PROMPT.season_record, a.team2_record)
    \o PromptLine(PROMPT.head_to_head, a.head_to_head)
    \o PromptLine(PROMPT.additional_context, a.additional_context)
    \o PROMPT.task \o FloatStr(RMul(MIN_EV_THRESHOLD, Rat(100, 1)))
    \o PROMPT.tail

\* the texts _parse_response looks for in the lower-cased response
KEYWORD ==
    [bet_on_team1 |->
        <<"b", "e", "t", " ", "o", "n", " ", "t", "e", "a", "m", "1">>,
     bet_on_team2 |->
        <<"b", "e", "t", " ", "o", "n", " ", "t", "e", "a", "m", "2">>,
     bet_on_draw |->
        <<"b", "e", "t", " ", "o", "n", " ", "d", "r", "a", "w">>,
     bet_on |->
        <<"b", "e", "t", " ", "o", "n", " ">>,
     draw |->
        <<"d", "r", "a", "w">>,
     bet |->
        <<"b", "e", "t">>,
     no_bet |->
        <<"n", "o", " ", "b", "e", "t">>,
     avoid |->
        <<"a", "v", "o", "i", "d">>,
     not_recommend |->
        <<"n", "o", "t", " ", "r", "e", "c", "o", "m", "m", "e", "n", "d">>,
     ev |->
        <<"e", "v">>,
     confidence |->
        <<"c", "o", "n", "f", "i", "d", "e", "n", "c", "e">>]

\* the recommendation texts of the result
RECOMMENDATION ==
    [bet_on |->
        <<"B", "e", "t", " ", "o", "n", " ">>,
     draw |->
        <<"B", "e", "t", " ", "o", "n", " ", "D", "r", "a", "w">>,
     no_bet |->
        <<"N", "o", " ", "b", "e", "t", " ", "r", "e", "c", "o", "m", "m", "e",
          "n", "d", "e", "d">>,
     review |->
        <<"R", "e", "v", "i", "e", "w", " ", "t", "h", "e", " ", "a", "n", "a",
          "l", "y", "s", "i", "s">>,
     unable |->
        <<"U", "n", "a", "b", "l", "e", " ", "t", "o", " ", "c", "o", "m", "p",
          "l", "e", "t", "e", " ", "a", "n", "a", "l", "y", "s", "i", "s", " ",
          "d", "u", "e", " ", "t", "o", " ", "e", "r", "r", "o", "r">>]

\* str() of the results of agent.invoke that have no message to read, and of
\* the AttributeError of response.lower() on a list
STR ==
    [none |->
        <<"N", "o", "n", "e">>,
     empty_dict |->
        <<"{", "}">>,
     no_messages |->
        <<"{", "'", "m", "e", "s", "s", "a", "g", "e", "s", "'", ":", " ", "[",
          "]", "}">>,
     no_lower |->
        <<"'", "l", "i", "s", "t", "'", " ", "o", "b", "j", "e", "c", "t", " ",
          "h", "a", "s", " ", "n", "o", " ", "a", "t", "t", "r", "i", "b", "u",
          "t", "e", " ", "'", "l", "o", "w", "e", "r", "'">>]

\* _parse_response(response, team1, ...): the result dictionary, or the
\* AttributeError of response.lower() when the response is no str
_parse_response(response, a) ==
    IF response.kind # "str"
    THEN [raised |-> Some(Exception("AttributeError", STR.no_lower)),
          ret |-> None]
    ELSE
    LET response_lower == StrLower(response.value)
        recommendation ==
            IF \/ Contains(response_lower, KEYWORD.bet_on_team1)
               \/ Contains(response_lower, KEYWORD.bet_on \o StrLower(a.team1))
            THEN RECOMMENDATION.bet_on \o a.team1
            ELSE IF \/ Contains(response_lower, KEYWORD.bet_on_team2)
                    \/ Contains(response_lower, KEYWORD.bet_on \o StrLower(a.team2))
            THEN RECOMMENDATION.bet_on \o a.team2
            ELSE IF \/ Contains(response_lower, KEYWORD.bet_on_draw)
                    \/ (/\ Contains(response_lower, KEYWORD.draw)
                        /\ Contains(response_lower, KEYWORD.bet))
            THEN RECOMMENDATION.draw
            ELSE IF \/ Contains(response_lower, KEYWORD.no_bet)
                    \/ Contains(response_lower, KEYWORD.avoid)
                    \/ Contains(response_lower, KEYWORD.not_recommend)
            THEN RECOMMENDATION.no_bet
            ELSE RECOMMENDATION.review
    IN  [raised |-> None,
         ret |-> [team1 |-> a.team1, team2 |-> a.team2,
                  team1_odds |-> a.team1_odds, team2_odds |-> a.team2_odds,
                  draw_odds |-> a.draw_odds,
                  analysis |-> response,
                  recommendation |-> recommendation,
                  confidence |->
                      Percentage(SearchNumber(response_lower, KEYWORD.confidence)),
                  expected_value |->
                      Percentage(SearchNumber(response_lower, KEYWORD.ev))]]

\* str(result_dict) for the results that have no message to read
Str(result_dict) ==
    IF result_dict.kind # "dict" THEN STR.none
    ELSE IF "messages" \in DOMAIN result_dict.value THEN STR.no_messages
    ELSE STR.empty_dict

\* self.chat_history after one statement that writes it: the assignment of
\* a list (line 139), or an append to the list it holds (lines 143 and 144)
Write(history, write) ==
    IF write.op = "assign" THEN write.value ELSE Append(history, write.value)

\* the response read from the result of agent.invoke, and the statements
\* that write self.chat_history on the way, in the order they are executed
ExtractResponse(prompt, result_dict) ==
    IF result_dict.kind = "dict" /\ "messages" \in DOMAIN result_dict.value
    THEN LET messages == result_dict.value.messages
             ai_messages == SelectSeq(messages, LAMBDA m : m.content.value # <<>>)
         IN  [response |-> IF ai_messages # <<>>
                           THEN ai_messages[Len(ai_messages)].content
                           ELSE PyStr(Str(result_dict)),
              writes |-> <<[op |-> "assign", value |-> messages]>>]
    ELSE IF result_dict.kind = "dict" /\ "output" \in DOMAIN result_dict.value
    THEN [response |-> result_dict.value.output,
          writes |-> <<[op |-> "append",
                        value |-> HumanMessage(PyStr(prompt))],
                       [op |-> "append",
                        value |-> AIMessage(result_dict.value.output)]>>]
    ELSE [response |-> PyStr(Str(result_dict)), writes |-> <<>>]

\* only a ValueError caught, every other exception passed on to the caller
ExceptValueError(e, a) ==
    IF e.type = "ValueError"
    THEN [raised |-> None,
          ret |-> [error |-> e.message, team1 |-> a.team1, team2 |-> a.team2,
                   recommendation |-> RECOMMENDATION.unable]]
    ELSE [raised |-> Some(e), ret |-> None]

\* except Exception as e: return {"error": str(e), ...}
ExceptException(e, a) ==
    [raised |-> None,
     ret |-> [error |-> e.message, team1 |-> a.team1, team2 |-> a.team2,
              recommendation |-> RECOMMENDATION.unable]]

\* the new prompt passed alone, without the stored chat history
MessagesPromptOnly(history, prompt) == <<HumanMessage(PyStr(prompt))>>

\* self.chat_history + [HumanMessage(content=prompt)]: the chat history is
\* read when agent.invoke is called
Messages(history, prompt) == history \o <<HumanMessage(PyStr(prompt))>>

\* analyze_match with the new prompt appended to the chat history when
\* agent.invoke raises
analyze_matchStoringPrompt(a, invoke) ==
    LET prompt == _build_analysis_prompt(a)
    IN  IF ~IsNone(invoke.raised)
        THEN LET x == ExceptException(invoke.raised[1], a)
             IN  [writes |-> <<[op |-> "append",
                                value |-> HumanMessage(PyStr(prompt))]>>,
                  response |-> None, parsed |-> None,
                  raised |-> x.raised, ret |-> x.ret]
        ELSE LET read == ExtractResponse(prompt, invoke.ret)
                 parsed == _parse_response(read.response, a)
                 x == IF IsNone(parsed.raised) THEN parsed
                      ELSE ExceptException(parsed.raised[1], a)
             IN  [writes |-> read.writes,
                  response |-> Some(read.response), parsed |-> Some(parsed),
                  raised |-> x.raised, ret |-> x.ret]

\* analyze_match from the moment agent.invoke, called with the messages of
\* Messages, raises or returns as `invoke` says (lines 126 to 168): the
\* statements that write self.chat_history, in their order, and what the
\* call returns.  Nothing is locked while agent.invoke runs, and the
\* statements write the chat history as it is when they are executed
analyze_match(a, invoke) ==
    LET prompt == _build_analysis_prompt(a)
    IN  IF ~IsNone(invoke.raised)
        THEN LET x == ExceptException(invoke.raised[1], a)
             IN  [writes |-> <<>>,
                  response |-> None, parsed |-> None,
                  raised |-> x.raised, ret |-> x.ret]
        ELSE LET read == ExtractResponse(prompt, invoke.ret)
                 parsed == _parse_response(read.response, a)
                 x == IF IsNone(parsed.raised) THEN parsed
                      ELSE ExceptException(parsed.raised[1], a)
             IN  [writes |-> read.writes,
                  response |-> Some(read.response), parsed |-> Some(parsed),
                  raised |-> x.raised, ret |-> x.ret]

\* clear_memory: self.chat_history = []
clear_memory(history) == <<>>

\* what the agent may answer, what a tool may print and what an error of the
\* API may say
TEXT ==
    [bet |->
        <<"R", "e", "c", "o", "m", "m", "e", "n", "d", "a", "t", "i", "o", "n",
          ":", " ", "B", "e", "t", " ", "o", "n", " ", "A", "b", ".", "\n", "E",
          "V", ":", " ", "1", "2", ".", "5", "%", ",", " ", "c", "o", "n", "f",
          "i", "d", "e", "n", "c", "e", " ", "=", " ", "7", "0", "%">>,
     no_bet |->
        <<"N", "o", " ", "b", "e", "t", ":", " ", "t", "h", "e", " ", "o", "d",
          "d", "s", " ", "a", "r", "e", " ", "f", "a", "i", "r", ".", " ", "C",
          "o", "n", "f", "i", "d", "e", "n", "c", "e", ":", " ", "1", ".", "2",
          ".", "3", ",", " ", "E", "V", "=", " ", ".">>,
     tool |->
        <<"T", "e", "a", "m", " ", "S", "t", "r", "e", "n", "g", "t", "h", " ",
          "A", "n", "a", "l", "y", "s", "i", "s", ":", "\n", "T", "e", "a", "m",
          "1", " ", "(", "A", "b", ")", ":", " ", "5", "0", ".", "0", "%", " ",
          "w", "i", "n", " ", "p", "r", "o", "b", "a", "b", "i", "l", "i", "t",
          "y">>,
     quota |->
        <<"4", "2", "9", " ", "q", "u", "o", "t", "a", " ", "e", "x", "c", "e",
          "e", "d", "e", "d">>]

\* what the agent appends to the messages it was passed
Answers ==
    {<<AIMessage(PyStr(TEXT.bet))>>,
     <<AIMessage(PyStr(TEXT.no_bet))>>,
     <<AIMessage(PyStr(<<>>)), ToolMessage(PyStr(TEXT.tool)),
       AIMessage(PyStr(TEXT.bet))>>,
     <<AIMessage(PyStr(<<>>))>>,
     <<AIMessage([kind |-> "list", value |-> TEXT.bet])>>}

\* the outcomes of agent.invoke({"messages": passed})
AgentResults(passed) ==
    {[raised |-> Some(Exception("RuntimeError", TEXT.quota)), ret |-> None]}
    \cup {[raised |-> None, ret |-> r] :
             r \in {PyDict([messages |-> passed \o answer]) : answer \in Answers}
                   \cup {PyDict([messages |-> <<>>]),
                         PyDict([output |-> PyStr(TEXT.no_bet)]),
                         PyDict(<<>>),
                         PyNone}}

\* the outcomes of agent.invoke in a session of several calls: a raise, an
\* answer appended to the messages passed, an empty list of messages, an
\* output and None
SessionResults(passed) ==
    {x \in AgentResults(passed) :
        \/ ~IsNone(x.raised)
        \/ x.ret \in {PyDict([messages |-> passed \o <<AIMessage(PyStr(TEXT.bet))>>]),
                      PyDict([messages |-> <<>>]),
                      PyDict([output |-> PyStr(TEXT.no_bet)]),
                      PyNone}}

\* the matches analysed
MatchArgs ==
    {[team1 |-> <<"A", "b">>, team2 |-> <<"C", "d">>,
      team1_odds |-> Rat(21, 10), team2_odds |-> Rat(185, 100),
      draw_odds |-> None,
      team1_recent_form |-> None, team2_recent_form |-> None,
      team1_record |-> None, team2_record |-> None,
      head_to_head |-> None, home_team |-> None,
      additional_context |-> None],
     [team1 |-> <<"A", "b">>, team2 |-> <<"C", "d">>,
      team1_odds |-> Rat(2, 1), team2_odds |-> Rat(4, 1),
      draw_odds |-> Some(Rat(34, 10)),
      team1_recent_form |-> Some(<<"W", "L">>),
      team2_recent_form |-> Some(<<"L">>),
      team1_record |-> Some(<<"2", "-", "1">>),
      team2_record |-> Some(<<"1", "-", "2">>),
      head_to_head |-> Some(<<"z">>), home_team |-> Some(<<"A", "b">>),
      additional_context |-> Some(<<"z">>)]}

(***************************************************************************)
(* LiveGamesFetcher of src/live_games_analyzer.py.  The JSON data of The   *)
(* Odds API is a list of games; a game has a sport_key, a commence_time    *)
(* and bookmakers, a bookmaker has markets, a market has outcomes, and an  *)
(* outcome has a name and a price.  A key that is missing is None.  A time *)
(* is the text of an ISO timestamp: its date and time of day, as seconds   *)
(* (local), and what follows them (zone): "Z", an offset, nothing, or      *)
(* something that is no timestamp ("?").                                   *)
(***************************************************************************)
\* datetime.now(timezone.utc), in seconds: what the clock answers first
NOW == 50000
\* 3 hours in seconds
LIVE_WINDOW == 10800
\* the offset of the zone "+01:00" in seconds
HOUR == 3600

IsoTime(local, zone) == [local |-> local, zone |-> zone]

\* commence_time_str.replace("Z", "+00:00")
ReplaceZ(text) ==
    IF text.zone = "Z" THEN [text EXCEPT !.zone = "+00:00"] ELSE text

\* datetime.fromisoformat(text): an aware datetime for a text with an offset,
\* a naive one for a text without, ValueError for a text that is no
\* timestamp (a "Z" left in the text is none either)
fromisoformat(text) ==
    CASE text.zone = "+00:00" ->
             [raised |-> None, ret |-> [local |-> text.local, utcoffset |-> Some(0)]]
      [] text.zone = "+01:00" ->
             [raised |-> None, ret |-> [local |-> text.local, utcoffset |-> Some(HOUR)]]
      [] text.zone = "" ->
             [raised |-> None, ret |-> [local |-> text.local, utcoffset |-> None]]
      [] OTHER ->
             [raised |-> Some(Exception("ValueError", <<>>)), ret |-> None]

\* (current_time - commence_time).total_seconds(), current_time being aware:
\* TypeError when commence_time is naive
SecondsSince(current_time, commence_time) ==
    IF IsNone(commence_time.utcoffset)
    THEN [raised |-> Some(Exception("TypeError", <<>>)), ret |-> None]
    ELSE [raised |-> None,
          ret |-> Some(current_time
                       - (commence_time.local - commence_time.utcoffset[1]))]

\* the test on time_diff with the lower end left open
StartedWithinAfter(time_diff) == 0 < time_diff /\ time_diff <= LIVE_WINDOW

\* 0 <= time_diff <= 10800
StartedWithin(time_diff) == 0 <= time_diff /\ time_diff <= LIVE_WINDOW

\* the outcomes of the first market of the first bookmaker, [] when there is
\* no bookmaker or no market
FirstOutcomes(game) ==
    IF game.bookmakers = <<>> THEN <<>>
    ELSE IF game.bookmakers[1].markets = <<>> THEN <<>>
    ELSE game.bookmakers[1].markets[1].outcomes

\* the dictionary appended to live_games for a game of the data
LiveGame(game, outcomes) ==
    [sport |-> IF IsNone(game.sport_key) THEN "unknown"
               ELSE game.sport_key[1],
     team1 |-> outcomes[1].name,
     team2 |-> outcomes[2].name,
     team1_odds |-> outcomes[1].price,
     team2_odds |-> outcomes[2].price,
     draw_odds |-> IF Len(outcomes) = 3 THEN Some(outcomes[3].price) ELSE None,
     commence_time |-> game.commence_time,
     home_team |-> None,
     source |-> "the_odds_api"]

\* the body of the loop over the data for one game: what it appends
LiveGamesOf(game, current_time) ==
    IF IsNone(game.commence_time) THEN <<>>
    ELSE LET parsed == fromisoformat(ReplaceZ(game.commence_time[1]))
         IN  IF ~IsNone(parsed.raised) THEN <<>>
             ELSE LET time_diff == SecondsSince(current_time, parsed.ret)
                  IN  IF ~IsNone(time_diff.raised) THEN <<>>
                      ELSE IF ~StartedWithin(time_diff.ret[1]) THEN <<>>
                      ELSE IF Len(FirstOutcomes(game)) < 2 THEN <<>>
                      ELSE <<LiveGame(game, FirstOutcomes(game))>>

RECURSIVE LiveGamesIn(_, _)
LiveGamesIn(data, current_time) ==
    IF data = <<>> THEN <<>>
    ELSE LiveGamesOf(Head(data), current_time)
         \o LiveGamesIn(Tail(data), current_time)

\* if not self.odds_api_key: None and "" are no key
HasKey(key) == ~IsNone(key) /\ key[1] # ""

\* fetch_live_games_odds_api, where urlopen and json.loads answer `response`:
\* the games read, or an HTTPError, an URLError or another exception;
\* requested tells whether the request was made
fetch_live_games_odds_api(self, response, current_time) ==
    IF ~HasKey(self.odds_api_key) THEN [requested |-> FALSE, ret |-> <<>>]
    ELSE IF response.kind # "data" THEN [requested |-> TRUE, ret |-> <<>>]
    ELSE [requested |-> TRUE, ret |-> LiveGamesIn(response.data, current_time)]

\* fetch_live_games_sportsradar: a placeholder, [] with or without a key
fetch_live_games_sportsradar(self) == <<>>

\* fetch_live_games_web_scraping: a placeholder
fetch_live_games_web_scraping(self) == <<>>

\* get_demo_live_games: two games that commence now.  The clock is read once
\* for each game (lines 150 and 161): clock[1] and clock[2] are what it
\* answers
get_demo_live_games(self, clock) ==
    <<[sport |-> "soccer",
       team1 |-> <<"M", "a", "n", "c", "h", "e", "s", "t", "e", "r", " ",
                   "U", "n", "i", "t", "e", "d">>,
       team2 |-> <<"L", "i", "v", "e", "r", "p", "o", "o", "l">>,
       team1_odds |-> Rat(25, 10), team2_odds |-> Rat(18, 10),
       draw_odds |-> Some(Rat(32, 10)),
       commence_time |-> Some(IsoTime(clock[1], "+00:00")),
       home_team |-> Some(<<"M", "a", "n", "c", "h", "e", "s", "t", "e", "r",
                            " ", "U", "n", "i", "t", "e", "d">>),
       source |-> "demo"],
      [sport |-> "basketball",
       team1 |-> <<"L", "a", "k", "e", "r", "s">>,
       team2 |-> <<"W", "a", "r", "r", "i", "o", "r", "s">>,
       team1_odds |-> Rat(21, 10), team2_odds |-> Rat(19, 10),
       draw_odds |-> None,
       commence_time |-> Some(IsoTime(clock[2], "+00:00")),
       home_team |-> Some(<<"L", "a", "k", "e", "r", "s">>),
       source |-> "demo"]>>

\* the key that tells the names apart by their case
GameKeyCaseSensitive(game) == <<game.team1, game.team2>>

\* (game["team1"].lower(), game["team2"].lower())
GameKey(game) == <<StrLower(game.team1), StrLower(game.team2)>>

\* the loop that removes duplicates, with the keys seen so far
RECURSIVE Unique(_, _)
Unique(all_games, seen) ==
    IF all_games = <<>> THEN <<>>
    ELSE LET game == Head(all_games)
             key == GameKey(game)
         IN  IF key \notin seen
             THEN <<game>> \o Unique(Tail(all_games), seen \cup {key})
             ELSE Unique(Tail(all_games), seen)

\* the web-scraping fallback called whatever the first two sources returned
FallbackAlways(all_games) == TRUE

\* if not all_games
FallbackNeeded(all_games) == all_games = <<>>

\* get_all_live_games: the methods of the fetcher it calls, in the order of
\* the calls, the games they returned (all_games) and the list it returns;
\* clock holds the answers of the clock in the order it is read, twice by
\* get_demo_live_games and once by fetch_live_games_odds_api (line 52)
get_all_live_games(self, use_demo, response, clock) ==
    IF use_demo
    THEN [called |-> <<"get_demo_live_games">>,
          requested |-> FALSE,
          all_games |-> <<>>,
          ret |-> get_demo_live_games(self, clock)]
    ELSE LET odds == fetch_live_games_odds_api(self, response, clock[1])
             first == odds.ret \o fetch_live_games_sportsradar(self)
             fallback == FallbackNeeded(first)
             all_games == IF fallback
                          THEN first \o fetch_live_games_web_scraping(self)
                          ELSE first
         IN  [called |-> <<"fetch_live_games_odds_api",
                           "fetch_live_games_sportsradar">>
                         \o (IF fallback
                             THEN <<"fetch_live_games_web_scraping">>
                             ELSE <<>>),
              requested |-> odds.requested,
              all_games |-> all_games,
              ret |-> Unique(all_games, {})]

(***************************************************************************)
(* LiveGamesAnalyzer: a BettingAgent and a LiveGamesFetcher.               *)
(***************************************************************************)
\* the arguments analyze_live_games passes to analyze_match for a game
GameArgs(game) ==
    [team1 |-> game.team1, team2 |-> game.team2,
     team1_odds |-> game.team1_odds, team2_odds |-> game.team2_odds,
     draw_odds |-> game.draw_odds,
     team1_recent_form |-> None, team2_recent_form |-> None,
     team1_record |-> None, team2_record |-> None,
     head_to_head |-> None, home_team |-> game.home_team,
     additional_context |-> None]

\* result["sport"], result["status"] and result["commence_time"] assigned
WithGameInfo(result, game) ==
    [k \in DOMAIN result \cup {"sport", "status", "commence_time"} |->
        CASE k = "sport" -> game.sport
          [] k = "status" -> "LIVE"
          [] k = "commence_time" -> game.commence_time
          [] OTHER -> result[k]]

\* the entry appended when analyzing a game raised
ErrorEntry(game, e) ==
    [team1 |-> game.team1, team2 |-> game.team2, error |-> e.message,
     status |-> "LIVE"]

\* the body of the loop over the live games for one game, from the moment
\* agent.invoke, called with the messages `passed`, raises or answers as
\* `kind` says: the entry appended and the statements of analyze_match that
\* write the chat history of the agent
AnalyzeGame(game, passed, kind) ==
    LET a == GameArgs(game)
        invoke ==
            IF kind = "raise"
            THEN [raised |-> Some(Exception("RuntimeError", TEXT.quota)),
                  ret |-> None]
            ELSE [raised |-> None,
                  ret |-> PyDict([messages |->
                              passed \o <<AIMessage(PyStr(TEXT.bet))>>])]
        r == analyze_match(a, invoke)
    IN  [entry |-> IF IsNone(r.raised) THEN WithGameInfo(r.ret, game)
                   ELSE ErrorEntry(game, r.raised[1]),
         writes |-> r.writes]

\* analyze_live_games up to its loop: the games fetched, the index of the
\* game the loop is at, the entries appended so far, and the messages passed
\* to agent.invoke while it is waited for; with no game fetched it
\* returns []
BeginAnalysis(self, use_demo, response, clock) ==
    LET live_games == get_all_live_games(self, use_demo, response, clock).ret
    IN  [live_games |-> live_games, idx |-> 1, analyzed_games |-> <<>>,
         passed |-> <<>>,
         pc |-> IF live_games = <<>> THEN "done" ELSE "loop"]

\* the loop given up at the first game whose analysis has an error
AnalyzeNextUntilError(f, kind) ==
    LET step == AnalyzeGame(f.live_games[f.idx], f.passed, kind)
    IN  [frame |-> [f EXCEPT !.idx = @ + 1,
                             !.analyzed_games = Append(@, step.entry),
                             !.passed = <<>>,
                             !.pc = IF \/ f.idx = Len(f.live_games)
                                       \/ "error" \in DOMAIN step.entry
                                    THEN "done" ELSE "loop"],
         writes |-> step.writes]

\* the rest of one turn of the loop over the live games, from the moment
\* agent.invoke does `kind`; after the last game analyze_live_games returns
\* analyzed_games
AnalyzeNext(f, kind) ==
    LET step == AnalyzeGame(f.live_games[f.idx], f.passed, kind)
    IN  [frame |-> [f EXCEPT !.idx = @ + 1,
                             !.analyzed_games = Append(@, step.entry),
                             !.passed = <<>>,
                             !.pc = IF f.idx = Len(f.live_games)
                                    THEN "done" ELSE "loop"],
         writes |-> step.writes]

(***************************************************************************)
(* The environment of the fetcher: the keys of the .env file and the data  *)
(* The Odds API answers with.                                              *)
(***************************************************************************)
MaxGames == 2

\* os.getenv("THE_ODDS_API_KEY") and os.getenv("SPORTS_DATA_API_KEY")
LiveGamesFetcher(odds_api_key, sports_data_key) ==
    [odds_api_key |-> odds_api_key, sports_data_key |-> sports_data_key]

\* the outcomes of a market on the teams Ab and Cd with a draw; a market
\* without a draw has the first two of them
ThreeOutcomes ==
    <<[name |-> <<"A", "b">>, price |-> Rat(21, 10)],
      [name |-> <<"C", "d">>, price |-> Rat(185, 100)],
      [name |-> <<"D", "r", "a", "w">>, price |-> Rat(34, 10)]>>

\* one bookmaker with one market
OneBook(outcomes) == <<[markets |-> <<[outcomes |-> outcomes]>>]>>

\* the times at which a game of the data commences
CommenceTimes ==
    {None,
     Some(IsoTime(NOW + 1, "Z")),
     Some(IsoTime(NOW, "Z")),
     Some(IsoTime(NOW - HOUR, "Z")),
     Some(IsoTime(NOW - LIVE_WINDOW, "+00:00")),
     Some(IsoTime(NOW - LIVE_WINDOW - 1, "Z")),
     Some(IsoTime(NOW, "+01:00")),
     Some(IsoTime(NOW - HOUR, "")),
     Some(IsoTime(NOW - HOUR, "?"))}

\* the bookmakers of a game of the data
Books ==
    {<<>>,
     <<[markets |-> <<>>]>>,
     OneBook(<<>>),
     OneBook(SubSeq(ThreeOutcomes, 1, 1)),
     OneBook(ThreeOutcomes),
     OneBook(ThreeOutcomes \o SubSeq(ThreeOutcomes, 3, 3)),
     <<[markets |-> <<[outcomes |-> SubSeq(ThreeOutcomes, 1, 1)],
                      [outcomes |-> SubSeq(ThreeOutcomes, 1, 2)]>>],
       [markets |-> <<[outcomes |-> SubSeq(ThreeOutcomes, 1, 2)]>>]>>}

\* the games of the data: one game at every time, one game with every list of
\* bookmakers, and games whose team names differ in case or in order
GamesData ==
    {[sport_key |-> Some("soccer_epl"), commence_time |-> t,
      bookmakers |-> OneBook(SubSeq(ThreeOutcomes, 1, 2))] : t \in CommenceTimes}
    \cup {[sport_key |-> Some("soccer_epl"),
           commence_time |-> Some(IsoTime(NOW - HOUR, "Z")),
           bookmakers |-> b] : b \in Books}
    \cup {[sport_key |-> None, commence_time |-> Some(IsoTime(NOW - 1, "Z")),
           bookmakers |->
               OneBook(<<[name |-> <<"A", "B">>, price |-> Rat(25, 10)],
                         [name |-> <<"c", "d">>, price |-> Rat(18, 10)]>>)],
          [sport_key |-> Some("basketball_nba"),
           commence_time |-> Some(IsoTime(NOW - 2, "Z")),
           bookmakers |->
               OneBook(<<[name |-> <<"C", "d">>, price |-> Rat(19, 10)],
                         [name |-> <<"A", "b">>, price |-> Rat(21, 10)]>>)]}

RECURSIVE ListsUpTo(_, _)
ListsUpTo(S, n) ==
    IF n = 0 THEN {<<>>}
    ELSE LET shorter == ListsUpTo(S, n - 1)
         IN  shorter \cup {Append(l, x) : l \in shorter, x \in S}

\* what urlopen and json.loads answer
Responses ==
    {[kind |-> "HTTPError", code |-> 401], [kind |-> "HTTPError", code |-> 429],
     [kind |-> "URLError"], [kind |-> "Exception"]}
    \cup {[kind |-> "data", data |-> d] : d \in ListsUpTo(GamesData, MaxGames)}

\* the answers with which games are analysed: a network error, and data of
\* live games, two of them with the same teams
AnalysisResponses ==
    {[kind |-> "URLError"]}
    \cup {[kind |-> "data", data |-> d] :
             d \in ListsUpTo({g \in GamesData :
                                 /\ g.commence_time
                                        \in {Some(IsoTime(NOW - HOUR, "Z")),
                                             Some(IsoTime(NOW - 1, "Z")),
                                             Some(IsoTime(NOW - 2, "Z"))}
                                 /\ g.bookmakers \in {OneBook(SubSeq(ThreeOutcomes, 1, 2)),
                                                      OneBook(ThreeOutcomes)}
                                    \/ g.sport_key # Some("soccer_epl")},
                             MaxGames)}

(***************************************************************************)
(* The state: the two tool objects of get_all_tools(), the record of the   *)
(* calls made on them so far, each with its arguments, the values its      *)
(* local variables ended with and what it returned, and the settings of    *)
(* the config module; the chat history of the BettingAgent and the record  *)
(* of the calls made on it, in the order they were made.  A call of        *)
(* analyze_match is recorded with its arguments, the messages it passed to *)
(* the agent and its position (pc): "invoke" while it waits for            *)
(* agent.invoke, "append" between two statements that write the chat       *)
(* history, "done" when it has returned; from the moment agent.invoke has  *)
(* answered, with what agent.invoke did and what the call returns.         *)
(***************************************************************************)
Init ==
    /\ tools = get_all_tools
    /\ calls = <<>>
    /\ config = Config
    /\ threads = [t \in 1..MaxThreads |-> [tool |-> "none", pc |-> "idle"]]
    /\ chat_history = <<>>
    /\ analyses = <<>>
    /\ fetcher = LiveGamesFetcher(None, None)
    /\ live = <<>>

Call(i, a, r) ==
    /\ tools' = [tools EXCEPT ![i] = r.self]
    /\ calls' = Append(calls, [tool |-> tools[i].name, args |-> a,
                               raised |-> r.raised, locals |-> r.locals,
                               ret |-> r.ret])
    /\ UNCHANGED <<config, threads, chat_history, analyses, fetcher, live>>

AnalyzeTeamStrength(a) == Call(1, a, TeamStrengthRun(tools[1], a))

AnalyzeOddsValue(a) == Call(2, a, OddsAnalysisRun(tools[2], a))

\* one call on freshly made tools, over the full input sets
FirstTeamStrength ==
    /\ calls = <<>>
    /\ \E a \in StrengthArgs : AnalyzeTeamStrength(a)

FirstOddsValue ==
    /\ calls = <<>>
    /\ \E a \in OddsArgs : AnalyzeOddsValue(a)

Spec == Init /\ [][FirstTeamStrength \/ FirstOddsValue]_vars

\* a sequence of calls on the same two tools, over a few arguments
SeqStrengthArgs ==
    [team1 : {<<"A", "b">>}, team2 : {<<"C", "d">>},
     team1_recent_form : {None, Some(<<"W", "L">>)},
     team2_recent_form : {Some(<<"W">>)},
     team1_record : {None}, team2_record : {None},
     head_to_head : {None, Some(<<"z">>)},
     home_team : {Some(<<"a", "b">>)},
     additional_context : {None}]

SeqOddsArgs ==
    [team1_odds : {Rat(4, 1)}, team2_odds : {Rat(18, 10), Rat(2, 1)},
     draw_odds : {None, Some(Rat(3, 1))},
     team1_strength : {Rat(55, 100)}, team2_strength : {Rat(45, 100)}]

SeqTeamStrength ==
    /\ Len(calls) < MaxCalls
    /\ \E a \in SeqStrengthArgs : AnalyzeTeamStrength(a)

SeqOddsValue ==
    /\ Len(calls) < MaxCalls
    /\ \E a \in SeqOddsArgs : AnalyzeOddsValue(a)

SpecSeq == Init /\ [][SeqTeamStrength \/ SeqOddsValue]_vars

\* MIN_EV_THRESHOLD of config.py set to another value before the tools are used
Configure ==
    /\ calls = <<>>
    /\ config = Config
    /\ \E t \in {Rat(0, 1), Rat(5, 100), Rat(10, 100)} \ {MIN_EV_THRESHOLD} :
           config' = [config EXCEPT !.MIN_EV_THRESHOLD = t]
    /\ UNCHANGED <<tools, calls, threads, chat_history, analyses, fetcher, live>>

\* one call of the Odds Valuator under the default or another configuration
SpecConfig == Init /\ [][Configure \/ FirstOddsValue]_vars

\* calls that run at the same time on the same two tools, one per thread
StartTeamStrength(t) ==
    /\ threads[t].pc = "idle"
    /\ \E a \in SeqStrengthArgs :
           threads' = [threads EXCEPT ![t] = Frame(tools[1].name, a, "start")]
    /\ UNCHANGED <<tools, calls, config, chat_history, analyses, fetcher, live>>

StartOddsValue(t) ==
    /\ threads[t].pc = "idle"
    /\ \E a \in SeqOddsArgs :
           threads' = [threads EXCEPT ![t] = Frame(tools[2].name, a, "implied")]
    /\ UNCHANGED <<tools, calls, config, chat_history, analyses, fetcher, live>>

Running(t, i) ==
    /\ threads[t].tool = get_all_tools[i].name
    /\ threads[t].pc \notin {"idle", "done"}

StepTeamStrength(t) ==
    /\ Running(t, 1)
    /\ LET r == TeamStrengthStep(tools[1], threads[t])
       IN  /\ tools' = [tools EXCEPT ![1] = r.self]
           /\ threads' = [threads EXCEPT ![t] = r.frame]
    /\ UNCHANGED <<calls, config, chat_history, analyses, fetcher, live>>

StepOddsValue(t) ==
    /\ Running(t, 2)
    /\ LET r == [self |-> tools[2], frame |-> OddsStatement(threads[t])]
       IN  /\ tools' = [tools EXCEPT ![2] = r.self]
           /\ threads' = [threads EXCEPT ![t] = r.frame]
    /\ UNCHANGED <<calls, config, chat_history, analyses, fetcher, live>>

SpecPar ==
    Init /\ [][\E t \in 1..MaxThreads :
                    \/ StartTeamStrength(t)
                    \/ StartOddsValue(t)
                    \/ StepTeamStrength(t)
                    \/ StepOddsValue(t)]_vars

\* BettingAgent.analyze_match called (lines 102 to 124): the prompt is built,
\* the chat history is read and agent.invoke is called with the messages.
\* The call is recorded with its position; at most MaxThreads calls run at
\* the same time
AnalyzeMatchCall(a) ==
    /\ Cardinality({k \in DOMAIN analyses : analyses[k].pc # "done"})
           < MaxThreads
    /\ analyses' = Append(analyses,
                          [method |-> "analyze_match", args |-> a,
                           passed |-> Messages(chat_history,
                                               _build_analysis_prompt(a)),
                           pc |-> "invoke"])
    /\ UNCHANGED <<tools, calls, config, threads, chat_history, fetcher, live>>

\* agent.invoke raises or returns in the call at place k of the record
\* (lines 126 to 168): the first statement that writes the chat history is
\* executed, on the chat history as it is now; with no other such statement
\* to follow, the response is parsed and the call returns
AnalyzeMatchReturn(k, invoke) ==
    /\ analyses[k].pc = "invoke"
    /\ \E r \in {analyze_match(analyses[k].args, invoke)} :
           /\ chat_history' = IF r.writes = <<>> THEN chat_history
                              ELSE Write(chat_history, Head(r.writes))
           /\ analyses' =
                  [analyses EXCEPT ![k] =
                      [method |-> "analyze_match", args |-> @.args,
                       passed |-> @.passed, invoke |-> invoke,
                       response |-> r.response, parsed |-> r.parsed,
                       raised |-> r.raised, ret |-> r.ret,
                       writes |-> IF r.writes = <<>> THEN <<>>
                                  ELSE Tail(r.writes),
                       pc |-> IF Len(r.writes) <= 1 THEN "done"
                              ELSE "append"]]
    /\ UNCHANGED <<tools, calls, config, threads, fetcher, live>>

\* the call at place k of the record executes the next statement that
\* writes the chat history (line 144 after line 143); after the last one
\* the response is parsed and the call returns
AnalyzeMatchAppend(k) ==
    /\ analyses[k].pc = "append"
    /\ chat_history' = Write(chat_history, Head(analyses[k].writes))
    /\ analyses' = [analyses EXCEPT ![k].writes = Tail(@),
                                    ![k].pc = IF Len(analyses[k].writes) = 1
                                              THEN "done" ELSE "append"]
    /\ UNCHANGED <<tools, calls, config, threads, fetcher, live>>

\* calls of analyze_match on the same BettingAgent, with every outcome of
\* agent.invoke
SpecAgent ==
    Init /\ [][\/ /\ Len(analyses) < MaxAnalyses
                  /\ \E a \in MatchArgs : AnalyzeMatchCall(a)
               \/ \E k \in DOMAIN analyses :
                      /\ analyses[k].pc = "invoke"
                      /\ \E invoke \in AgentResults(analyses[k].passed) :
                             AnalyzeMatchReturn(k, invoke)
               \/ \E k \in DOMAIN analyses : AnalyzeMatchAppend(k)]_vars

\* BettingAgent.clear_memory, recorded with the places of the calls of
\* analyze_match that have not returned
ClearMemory ==
    /\ Len(analyses) < MaxSession
    /\ chat_history' = clear_memory(chat_history)
    /\ analyses' = Append(analyses,
                          [method |-> "clear_memory", pc |-> "done",
                           waiting |-> {k \in DOMAIN analyses :
                                            analyses[k].pc # "done"}])
    /\ UNCHANGED <<tools, calls, config, threads, fetcher, live>>

\* up to MaxSession calls of analyze_match, for the match without draw odds,
\* and of clear_memory on the same BettingAgent
SpecSession ==
    Init /\ [][\/ /\ Len(analyses) < MaxSession
                  /\ \E a \in {m \in MatchArgs : IsNone(m.draw_odds)} :
                         AnalyzeMatchCall(a)
               \/ \E k \in DOMAIN analyses :
                      /\ analyses[k].pc = "invoke"
                      /\ \E invoke \in SessionResults(analyses[k].passed) :
                             AnalyzeMatchReturn(k, invoke)
               \/ \E k \in DOMAIN analyses : AnalyzeMatchAppend(k)
               \/ ClearMemory]_vars

\* LiveGamesFetcher() where the environment holds keys
NewLiveGamesFetcher ==
    /\ live = <<>>
    /\ fetcher = LiveGamesFetcher(None, None)
    /\ \E odds_api_key \in {None, Some(""), Some("key")},
          sports_data_key \in {None, Some("key")} :
           /\ fetcher' = LiveGamesFetcher(odds_api_key, sports_data_key)
           /\ fetcher' # fetcher
    /\ UNCHANGED <<tools, calls, config, threads, chat_history, analyses, live>>

\* one call of fetch_live_games_odds_api
FetchLiveGamesOddsApi ==
    /\ live = <<>>
    /\ \E response \in Responses :
           \E r \in {fetch_live_games_odds_api(fetcher, response, NOW)} :
               live' = <<[method |-> "fetch_live_games_odds_api",
                          response |-> response, current_time |-> NOW,
                          requested |-> r.requested, ret |-> r.ret]>>
    /\ UNCHANGED <<tools, calls, config, threads, chat_history, analyses, fetcher>>

\* one call of get_all_live_games; the clock, read twice for the demo games,
\* answers the same time twice or a later time the second time
GetAllLiveGames ==
    /\ live = <<>>
    /\ \E use_demo \in BOOLEAN, response \in Responses :
           \E clock \in (IF use_demo THEN {<<NOW, NOW>>, <<NOW, NOW + 1>>}
                         ELSE {<<NOW>>}) :
           \E r \in {get_all_live_games(fetcher, use_demo, response, clock)} :
               live' = <<[method |-> "get_all_live_games",
                          use_demo |-> use_demo,
                          response |-> response, clock |-> clock,
                          called |-> r.called, requested |-> r.requested,
                          all_games |-> r.all_games, ret |-> r.ret]>>
    /\ UNCHANGED <<tools, calls, config, threads, chat_history, analyses, fetcher>>

SpecFetch ==
    Init /\ [][NewLiveGamesFetcher \/ FetchLiveGamesOddsApi
              \/ GetAllLiveGames]_vars

\* analyze_live_games called: the games are fetched
AnalyzeLiveGames ==
    /\ live = <<>>
    /\ \E use_demo \in BOOLEAN, response \in AnalysisResponses :
           \E clock \in (IF use_demo THEN {<<NOW, NOW>>, <<NOW, NOW + 1>>}
                         ELSE {<<NOW>>}) :
           \E f \in {BeginAnalysis(fetcher, use_demo, response, clock)} :
               live' = <<[method |-> "analyze_live_games",
                          use_demo |-> use_demo, response |-> response,
                          clock |-> clock, kinds |-> <<>>,
                          frame |-> f]>>
    /\ UNCHANGED <<tools, calls, config, threads, chat_history, analyses, fetcher>>

\* analyze_live_games calls analyze_match for the next game of its loop: the
\* chat history is read and agent.invoke is called with the messages
AnalyzeNextGame ==
    /\ live # <<>>
    /\ live[1].method = "analyze_live_games"
    /\ live[1].frame.pc = "loop"
    /\ \E f \in {live[1].frame} :
           live' = <<[live[1] EXCEPT
                         !.frame.pc = "invoke",
                         !.frame.passed =
                             Messages(chat_history,
                                      _build_analysis_prompt(
                                          GameArgs(f.live_games[f.idx])))]>>
    /\ UNCHANGED <<tools, calls, config, threads, chat_history, analyses, fetcher>>

\* agent.invoke raises or answers for the game the loop is at: analyze_match
\* writes the chat history as the answer has it and returns, and the entry
\* of the game is appended
AnalyzeNextReturn ==
    /\ live # <<>>
    /\ live[1].method = "analyze_live_games"
    /\ live[1].frame.pc = "invoke"
    /\ \E kind \in {"raise", "answer"} :
           \E r \in {AnalyzeNext(live[1].frame, kind)} :
               /\ chat_history' = IF r.writes = <<>> THEN chat_history
                                  ELSE Write(chat_history, Head(r.writes))
               /\ live' = <<[live[1] EXCEPT !.kinds = Append(@, kind),
                                            !.frame = r.frame]>>
    /\ UNCHANGED <<tools, calls, config, threads, analyses, fetcher>>

\* analyze_live_games on the games fetched, while clear_memory is called on
\* its BettingAgent
SpecLive ==
    Init /\ [][NewLiveGamesFetcher \/ AnalyzeLiveGames
              \/ AnalyzeNextGame \/ AnalyzeNextReturn \/ ClearMemory]_vars

(***************************************************************************)
(* Properties.                                                             *)
(***************************************************************************)
StrengthCalls == {i \in DOMAIN calls : calls[i].tool = "analyze_team_strength"}
OddsCalls == {i \in DOMAIN calls : calls[i].tool = "analyze_odds_value"}

\* comparisons of a number <<n, d>> with an integer, written out
Above(x, k) == x[1] > k * x[2]
AtLeast(x, k) == x[1] >= k * x[2]
\* x > 5/100
AboveFivePercent(x) == 20 * x[1] > x[2]

\* C1: in every call of the Team Strength Estimator the two normalized scores
\* each lie in [0, 1] and sum to 1.0
C1_ScoresSumToOne ==
    \A i \in StrengthCalls :
        LET l == calls[i].locals
        IN  /\ AtLeast(l.team1_score, 0) /\ ~Above(l.team1_score, 1)
            /\ AtLeast(l.team2_score, 0) /\ ~Above(l.team2_score, 1)
            /\ RAdd(l.team1_score, l.team2_score) = <<1, 1>>

\* a call with both forms, a home team and the free-text fields, whose raw
\* scores did not already sum to 1.0
C1_Witness ==
    \E i \in StrengthCalls :
        /\ TruthyStr(calls[i].args.team1_recent_form)
        /\ TruthyStr(calls[i].args.team2_recent_form)
        /\ HomeSide(calls[i].args) = 2
        /\ TruthyStr(calls[i].args.head_to_head)
        /\ calls[i].locals.total # <<1, 1>>
        /\ calls[i].locals.team1_score # calls[i].locals.team2_score

\* an odds value the specification calls invalid: at most 1.0
InvalidOdds(a) ==
    \/ ~Above(a.team1_odds, 1)
    \/ ~Above(a.team2_odds, 1)
    \/ (~IsNone(a.draw_odds) /\ ~Above(a.draw_odds[1], 1))

\* C2: the Odds Valuator rejects with InvalidOddsError every call in which
\* team1_odds, team2_odds or a supplied draw_odds is at most 1.0
C2_InvalidOddsRejected ==
    \A i \in OddsCalls :
        InvalidOdds(calls[i].args) => calls[i].raised = "InvalidOddsError"

RecommendedOutcomes(c) ==
    {c.locals.recommendations[k].outcome : k \in DOMAIN c.locals.recommendations}

\* C3: an outcome is recommended if and only if its expected value is strictly
\* greater than 0.05 (the draw only when draw odds are supplied)
C3_RecommendedIffAboveThreshold ==
    \A i \in OddsCalls :
        LET c == calls[i]
            l == c.locals
        IN  /\ "Team1" \in RecommendedOutcomes(c) <=> AboveFivePercent(l.team1_ev)
            /\ "Team2" \in RecommendedOutcomes(c) <=> AboveFivePercent(l.team2_ev)
            /\ "Draw" \in RecommendedOutcomes(c)
                   <=> (TruthyNum(c.args.draw_odds) /\ AboveFivePercent(l.draw_ev))
            /\ c.ret.recommendations = l.recommendations

\* the outcomes a call evaluates: both teams, and the draw when supplied
Evaluated(c) ==
    {[odds |-> c.args.team1_odds, implied |-> c.locals.team1_implied_prob,
      actual |-> c.locals.team1_actual_prob, ev |-> c.locals.team1_ev,
      line |-> c.ret.lines[1]],
     [odds |-> c.args.team2_odds, implied |-> c.locals.team2_implied_prob,
      actual |-> c.locals.team2_actual_prob, ev |-> c.locals.team2_ev,
      line |-> c.ret.lines[2]]}
    \cup (IF TruthyNum(c.args.draw_odds)
          THEN {[odds |-> c.args.draw_odds[1],
                 implied |-> c.locals.draw_implied_prob,
                 actual |-> c.locals.draw_actual_prob, ev |-> c.locals.draw_ev,
                 line |-> c.ret.lines[3]]}
          ELSE {})

\* the percentage printed is x to the nearest tenth of a percent
NearestTenth(printed, x) ==
    LET twice == 2 * (printed * x[2] - 1000 * x[1])
    IN  twice <= x[2] /\ -twice <= x[2]

\* the percentage printed for x, the value of an outcome of the call c, is x
\* as .1% formats it: the nearest tenth of a percent and, where x lies halfway
\* between two tenths, the one the float held rounds to
Reported(printed, x, c, outcome, value) ==
    /\ NearestTenth(printed, x)
    /\ printed = Percent(x, HeldFloat(c.args, outcome, value))

\* C4: for every outcome evaluated, EV = actual probability * odds - 1, and the
\* actual probability in it is the one the result reports for the outcome
C4_ExpectedValueFormula ==
    \A i \in OddsCalls :
        \A o \in Evaluated(calls[i]) :
            /\ RAdd(o.ev, <<1, 1>>) = RMul(o.actual, o.odds)
            /\ Reported(o.line.actual, o.actual, calls[i], o.line.outcome, "actual")
            /\ Reported(o.line.ev, o.ev, calls[i], o.line.outcome, "ev")

\* a call with a draw and valid odds in which the three EVs differ
C4_Witness ==
    \E i \in OddsCalls :
        /\ ~InvalidOdds(calls[i].args)
        /\ TruthyNum(calls[i].args.draw_odds)
        /\ Cardinality({o.ev : o \in Evaluated(calls[i])}) = 3
        /\ Above(calls[i].locals.team1_ev, 0)

\* C5: for every odds value above 1.0 the implied probability is 1 / odds and
\* lies strictly between 0 and 1
C5_ImpliedProbability ==
    \A i \in OddsCalls :
        \A o \in Evaluated(calls[i]) :
            Above(o.odds, 1) =>
                /\ RMul(o.implied, o.odds) = <<1, 1>>
                /\ Above(o.implied, 0)
                /\ ~AtLeast(o.implied, 1)

\* a call whose three odds are all above 1.0
C5_Witness ==
    \E i \in OddsCalls :
        /\ Cardinality(Evaluated(calls[i])) = 3
        /\ \A o \in Evaluated(calls[i]) : Above(o.odds, 1)

InUnitInterval(x) == AtLeast(x, 0) /\ ~Above(x, 1)

\* strengths as the data model has them: both in [0, 1]
StrengthsInRange(a) ==
    InUnitInterval(a.team1_strength) /\ InUnitInterval(a.team2_strength)

StrengthsSumToOne(a) == RAdd(a.team1_strength, a.team2_strength) = <<1, 1>>

ActualIsStrength(c) ==
    /\ c.locals.team1_actual_prob = c.args.team1_strength
    /\ c.locals.team2_actual_prob = c.args.team2_strength

\* C6 as stated: without a draw outcome the actual probabilities are the
\* supplied strengths, for every pair of strengths in [0, 1]
C6_ActualIsStrength ==
    \A i \in OddsCalls :
        (~TruthyNum(calls[i].args.draw_odds) /\ StrengthsInRange(calls[i].args))
            => ActualIsStrength(calls[i])

\* C6 as amended: without a draw outcome, for every pair of strengths in
\* [0, 1], the actual probabilities are the supplied strengths exactly when
\* the strengths sum to 1.0
C6_ActualIsStrengthIffSumOne ==
    \A i \in OddsCalls :
        (~TruthyNum(calls[i].args.draw_odds) /\ StrengthsInRange(calls[i].args))
            => (ActualIsStrength(calls[i]) <=> StrengthsSumToOne(calls[i].args))

\* the call of the specification's scenario C: no draw, the strengths 0.55
\* and 0.45, which sum to 1.0 and are kept
C6_Witness ==
    \E i \in OddsCalls :
        /\ IsNone(calls[i].args.draw_odds)
        /\ calls[i].args.team1_odds = <<5, 2>>
        /\ calls[i].args.team2_odds = <<9, 5>>
        /\ calls[i].args.team1_strength = <<11, 20>>
        /\ calls[i].args.team2_strength = <<9, 20>>
        /\ ActualIsStrength(calls[i])

ActualIsScaledStrength(c) ==
    /\ 10 * c.locals.team1_actual_prob[1] * c.args.team1_strength[2]
           = 9 * c.args.team1_strength[1] * c.locals.team1_actual_prob[2]
    /\ 10 * c.locals.team2_actual_prob[1] * c.args.team2_strength[2]
           = 9 * c.args.team2_strength[1] * c.locals.team2_actual_prob[2]

ActualSum(c) ==
    RAdd(RAdd(c.locals.team1_actual_prob, c.locals.team2_actual_prob),
         c.locals.draw_actual_prob)

\* C7 as stated: with a draw outcome actual_draw is 0.10, each team's actual
\* probability is its strength x 0.9, and the three sum to 1.0
C7_DrawScalesStrengths ==
    \A i \in OddsCalls :
        (TruthyNum(calls[i].args.draw_odds) /\ StrengthsInRange(calls[i].args))
            => /\ calls[i].locals.draw_actual_prob = <<1, 10>>
               /\ ActualIsScaledStrength(calls[i])
               /\ ActualSum(calls[i]) = <<1, 1>>

\* C7 as amended: with a draw outcome actual_draw is 0.10 and the three actual
\* probabilities sum to 1.0; each team's actual probability is its strength
\* x 0.9 when the two strengths sum to 1.0
C7_DrawPriorAndSum ==
    \A i \in OddsCalls :
        TruthyNum(calls[i].args.draw_odds)
            => /\ calls[i].locals.draw_actual_prob = <<1, 10>>
               /\ ActualSum(calls[i]) = <<1, 1>>
               /\ StrengthsSumToOne(calls[i].args)
                      => ActualIsScaledStrength(calls[i])

\* a call as in the specification's scenario D: a draw and the strengths 0.55
\* and 0.45, which become 0.495 and 0.405
C7_Witness ==
    \E i \in OddsCalls :
        /\ calls[i].args.draw_odds = <<<<3, 1>>>>
        /\ calls[i].args.team1_strength = <<11, 20>>
        /\ calls[i].args.team2_strength = <<9, 20>>
        /\ calls[i].locals.team1_actual_prob = <<99, 200>>
        /\ calls[i].locals.team2_actual_prob = <<81, 200>>
        /\ calls[i].locals.draw_ev = <<-7, 10>>

\* the place of an outcome in the order of evaluation
EvaluationRank(outcome) ==
    CASE outcome = "Team1" -> 1 [] outcome = "Team2" -> 2 [] outcome = "Draw" -> 3

InEvaluationOrder(recs) ==
    \A j, k \in DOMAIN recs :
        j < k => EvaluationRank(recs[j].outcome) < EvaluationRank(recs[k].outcome)

\* C8: the recommendations always appear in the order team1, team2, draw
C8_RecommendationOrder ==
    \A i \in OddsCalls :
        /\ InEvaluationOrder(calls[i].locals.recommendations)
        /\ InEvaluationOrder(calls[i].ret.recommendations)

\* a call in which all three outcomes are recommended
C8_Witness ==
    \E i \in OddsCalls : Len(calls[i].ret.recommendations) = 3

\* an outcome of the call c passes the test ev > 0.05 of the code: its EV is
\* above 0.05, or is 0.05 and the float held for it is above the float 0.05
PassesTest(o, c) ==
    IsValueBet(o.ev, HeldFloat(c.args, o.line.outcome, "ev"))

C10_Deterministic ==
    /\ \A i, j \in DOMAIN calls :
        (calls[i].tool = calls[j].tool /\ calls[i].args = calls[j].args)
            => /\ calls[i].ret = calls[j].ret
               /\ calls[i].raised = calls[j].raised
    /\ \A t \in DOMAIN tools :
        DOMAIN tools[t] = {"name"} /\ tools[t].name = get_all_tools[t].name

\* the same call made first and third, around a call of the other tool
C10_Witness ==
    /\ Len(calls) = 3
    /\ calls[1].tool = calls[3].tool
    /\ calls[1].args = calls[3].args
    /\ calls[2].tool # calls[1].tool

\* what a recent form is worth: a fifth of the share of W and w in it, and
\* nothing when it is None or empty
FormPoints(form) ==
    IF TruthyStr(form)
    THEN Rat(Cardinality({k \in DOMAIN form[1] : form[1][k] \in {"W", "w"}}),
             5 * Len(form[1]))
    ELSE <<0, 1>>

HomePoints(a, side) == IF HomeSide(a) = side THEN <<1, 10>> ELSE <<0, 1>>

\* C11: a present form adds (W counted in either case / length) x 0.2 to its
\* own team's raw score and an absent one adds nothing; a raw score has no
\* part that comes from the other team's form
C11_FormContribution ==
    \A i \in StrengthCalls :
        LET a == calls[i].args
            l == calls[i].locals
        IN  /\ l.raw1 = RAdd(RAdd(<<1, 2>>, FormPoints(a.team1_recent_form)),
                             HomePoints(a, 1))
            /\ l.raw2 = RAdd(RAdd(<<1, 2>>, FormPoints(a.team2_recent_form)),
                             HomePoints(a, 2))

\* a call with a form for team1 only, one win in two written in lower case
C11_Witness ==
    \E i \in StrengthCalls :
        /\ calls[i].args.team1_recent_form = <<<<"w", "L">>>>
        /\ IsNone(calls[i].args.team2_recent_form)
        /\ calls[i].locals.raw1 = <<3, 5>>
        /\ calls[i].locals.raw2 = <<1, 2>>

\* home_team is given and is the name, compared without regard to case
NamesTeam(home_team, name) ==
    /\ TruthyStr(home_team)
    /\ [k \in DOMAIN home_team[1] |-> LowerChar(home_team[1][k])]
           = [k \in DOMAIN name |-> LowerChar(name[k])]

\* what the home_team step added to a team's raw score
HomeBonus1(c) ==
    RSub(RSub(c.locals.raw1, <<1, 2>>), FormPoints(c.args.team1_recent_form))
HomeBonus2(c) ==
    RSub(RSub(c.locals.raw2, <<1, 2>>), FormPoints(c.args.team2_recent_form))

\* C12 as stated: home_team adds 0.1 to team1 when it names team1, 0.1 to team2
\* when it names team2, nothing when it names neither or is absent, and never
\* to both
C12_HomeBonus ==
    \A i \in StrengthCalls :
        LET c == calls[i]
            m1 == NamesTeam(c.args.home_team, c.args.team1)
            m2 == NamesTeam(c.args.home_team, c.args.team2)
        IN  /\ m1 => HomeBonus1(c) = <<1, 10>>
            /\ m2 => HomeBonus2(c) = <<1, 10>>
            /\ (~m1 /\ ~m2) => (HomeBonus1(c) = <<0, 1>> /\ HomeBonus2(c) = <<0, 1>>)
            /\ ~(HomeBonus1(c) # <<0, 1>> /\ HomeBonus2(c) # <<0, 1>>)

\* C12 as amended: home_team adds 0.1 to team1 when it names team1, 0.1 to
\* team2 when it names team2 and not team1, and nothing otherwise
C12_HomeBonusFirstMatch ==
    \A i \in StrengthCalls :
        LET c == calls[i]
            m1 == NamesTeam(c.args.home_team, c.args.team1)
            m2 == NamesTeam(c.args.home_team, c.args.team2)
        IN  /\ HomeBonus1(c) = IF m1 THEN <<1, 10>> ELSE <<0, 1>>
            /\ HomeBonus2(c) = IF m2 /\ ~m1 THEN <<1, 10>> ELSE <<0, 1>>

\* a call whose home_team is team2's name in another case
C12_Witness ==
    \E i \in StrengthCalls :
        /\ calls[i].args.team1 = <<"A", "b">>
        /\ calls[i].args.team2 = <<"C", "d">>
        /\ calls[i].args.home_team = <<<<"C", "D">>>>
        /\ HomeBonus1(calls[i]) = <<0, 1>>
        /\ HomeBonus2(calls[i]) = <<1, 10>>

\* the arguments without the four free-text fields
WithoutTexts(a) ==
    [a EXCEPT !.head_to_head = None, !.additional_context = None,
              !.team1_record = None, !.team2_record = None]

TextFactors(factors) ==
    {k \in DOMAIN factors :
        factors[k].kind \in {"Head-to-head", "Additional context"}}

\* C13: head_to_head, additional_context and the two records never change the
\* scores: every call scores as the call without them does; the first two,
\* when present, only add their entry at the end of the factors
C13_TextsLeaveScores ==
    \A i \in StrengthCalls :
        LET c == calls[i]
            plain == TeamStrengthFrame(WithoutTexts(c.args))
            n == Len(plain.locals.factors)
            texts == (IF TruthyStr(c.args.head_to_head)
                      THEN <<[kind |-> "Head-to-head",
                              text |-> c.args.head_to_head[1]]>> ELSE <<>>)
                     \o (IF TruthyStr(c.args.additional_context)
                         THEN <<[kind |-> "Additional context",
                                 text |-> c.args.additional_context[1]]>>
                         ELSE <<>>)
        IN  /\ c.locals.team1_score = plain.locals.team1_score
            /\ c.locals.team2_score = plain.locals.team2_score
            /\ c.locals.raw1 = plain.locals.raw1
            /\ c.locals.raw2 = plain.locals.raw2
            /\ c.ret.team1_pct = plain.ret.team1_pct
            /\ c.ret.team2_pct = plain.ret.team2_pct
            /\ c.locals.factors = plain.locals.factors \o texts

\* a call with all four fields, both forms and a home team
C13_Witness ==
    \E i \in StrengthCalls :
        /\ TruthyStr(calls[i].args.head_to_head)
        /\ TruthyStr(calls[i].args.additional_context)
        /\ TruthyStr(calls[i].args.team1_record)
        /\ TruthyStr(calls[i].args.team2_record)
        /\ HomeSide(calls[i].args) = 1
        /\ Len(calls[i].locals.factors) = 5
        /\ Cardinality(TextFactors(calls[i].locals.factors)) = 2

\* a form that is empty once its blanks are trimmed
BlankForm(form) ==
    ~IsNone(form) /\ \A k \in DOMAIN form[1] : form[1][k] = " "

\* C14: an empty or all-blank form adds exactly zero to its team's raw score,
\* and the call completes
C14_BlankFormAddsNothing ==
    \A i \in StrengthCalls :
        LET c == calls[i]
        IN  /\ BlankForm(c.args.team1_recent_form)
                => (c.locals.raw1 = RAdd(<<1, 2>>, HomePoints(c.args, 1))
                    /\ c.raised = "none")
            /\ BlankForm(c.args.team2_recent_form)
                => (c.locals.raw2 = RAdd(<<1, 2>>, HomePoints(c.args, 2))
                    /\ c.raised = "none")

\* a call with a form of one blank for team1 and an empty form for team2
C14_Witness ==
    \E i \in StrengthCalls :
        /\ calls[i].args.team1_recent_form = <<<<" ">>>>
        /\ calls[i].args.team2_recent_form = <<<<>>>>
        /\ calls[i].locals.total = <<1, 1>>

\* C15: the Team Strength Estimator raises InvalidInputError when a team name
\* is empty
C15_EmptyNameRejected ==
    \A i \in StrengthCalls :
        (calls[i].args.team1 = <<>> \/ calls[i].args.team2 = <<>>)
            => calls[i].raised = "InvalidInputError"

\* C18: each raw score stays within [0.5, 0.8] and their sum within
\* [1.0, 1.5], so the sum is positive and the scores are always divided by it
C18_RawSumPositive ==
    \A i \in StrengthCalls :
        LET l == calls[i].locals
        IN  /\ \A raw \in {l.raw1, l.raw2} :
                   2 * raw[1] >= raw[2] /\ 5 * raw[1] <= 4 * raw[2]
            /\ l.total = RAdd(l.raw1, l.raw2)
            /\ AtLeast(l.total, 1) /\ 2 * l.total[1] <= 3 * l.total[2]
            /\ RMul(l.team1_score, l.total) = l.raw1
            /\ RMul(l.team2_score, l.total) = l.raw2

\* a call with the largest raw scores there are: all wins for both teams and
\* the home bonus for team1
C18_Witness ==
    \E i \in StrengthCalls :
        /\ calls[i].locals.raw1 = <<4, 5>>
        /\ calls[i].locals.raw2 = <<7, 10>>
        /\ calls[i].locals.total = <<3, 2>>
        /\ calls[i].locals.team1_score = <<8, 15>>

\* C19: odds of 0 or less for team1, team2 or the draw give the implied
\* probability 0 for that outcome, and the call returns its result
C19_NonPositiveOddsImplyZero ==
    \A i \in OddsCalls :
        LET c == calls[i]
        IN  /\ ~Above(c.args.team1_odds, 0)
                => (c.locals.team1_implied_prob = <<0, 1>> /\ c.raised = "none"
                    /\ c.ret.lines[1].implied = 0)
            /\ ~Above(c.args.team2_odds, 0)
                => (c.locals.team2_implied_prob = <<0, 1>> /\ c.raised = "none"
                    /\ c.ret.lines[2].implied = 0)
            /\ (~IsNone(c.args.draw_odds) /\ ~Above(c.args.draw_odds[1], 0))
                => (c.locals.draw_implied_prob = <<0, 1>> /\ c.raised = "none")

\* a call with negative odds for team1, odds 0 for team2 and negative draw odds
C19_Witness ==
    \E i \in OddsCalls :
        /\ calls[i].args.team1_odds = <<-2, 1>>
        /\ calls[i].args.team2_odds = <<0, 1>>
        /\ calls[i].args.draw_odds = <<<<-2, 1>>>>
        /\ Len(calls[i].ret.lines) = 3
        /\ calls[i].ret.lines[3].implied = 0

\* C16: the Odds Valuator recommends an outcome if and only if its EV exceeds
\* the configured MIN_EV_THRESHOLD, whatever value is configured
C16_ConfiguredThreshold ==
    \A i \in OddsCalls :
        LET c == calls[i]
            rec == RecommendedOutcomes(c)
        IN  /\ "Team1" \in rec
                <=> RGt(c.locals.team1_ev, config.MIN_EV_THRESHOLD)
            /\ "Team2" \in rec
                <=> RGt(c.locals.team2_ev, config.MIN_EV_THRESHOLD)
            /\ ~IsNone(c.args.draw_odds)
                => ("Draw" \in rec
                       <=> RGt(c.locals.draw_ev, config.MIN_EV_THRESHOLD))

\* the result of the same call run alone
RunAlone(f) ==
    IF f.tool = "analyze_team_strength" THEN TeamStrengthFrame(f.args)
    ELSE OddsAnalysisFrame(f.args)

\* C17: whatever the interleaving of the calls that run at the same time, a
\* call that has returned has returned what it returns when run alone, its
\* local variables ended as they end there, and the tools are as they were
C17_NoInterference ==
    /\ tools = get_all_tools
    /\ \A t \in 1..MaxThreads :
           threads[t].pc = "done" =>
               LET f == threads[t]
                   alone == RunAlone(f)
               IN  /\ f.ret = alone.ret
                   /\ \A n \in DOMAIN f.locals : f.locals[n] = alone.locals[n]

\* a call of the Estimator has returned while another call of the Estimator,
\* with other arguments, is between its home_team and normalization steps
C17_Witness ==
    \E t, u \in 1..MaxThreads :
        /\ threads[t].pc = "done"
        /\ threads[u].pc = "normalize"
        /\ threads[t].tool = "analyze_team_strength"
        /\ threads[u].tool = "analyze_team_strength"
        /\ threads[t].args # threads[u].args
        /\ threads[t].ret = TeamStrengthFrame(threads[t].args).ret

\* the calls of analyze_match that have returned
Returned ==
    {i \in DOMAIN analyses :
        analyses[i].method = "analyze_match" /\ analyses[i].pc = "done"}

\* agent.invoke or _parse_response raised in the call
Failed(c) ==
    \/ ~IsNone(c.invoke.raised)
    \/ ~IsNone(c.parsed) /\ ~IsNone(c.parsed[1].raised)

\* C20: analyze_match passes no exception of agent.invoke or _parse_response
\* on to its caller: when either raises it returns a dictionary with the keys
\* error, team1, team2 and recommendation, and otherwise a dictionary
\* without the key error
C20_ErrorsReturned ==
    \A i \in Returned :
        LET c == analyses[i]
        IN  /\ IsNone(c.raised)
            /\ Failed(c) =>
                   /\ DOMAIN c.ret = {"error", "team1", "team2", "recommendation"}
                   /\ c.ret.team1 = c.args.team1
                   /\ c.ret.team2 = c.args.team2
                   /\ c.ret.recommendation = RECOMMENDATION.unable
                   /\ c.ret.error = IF ~IsNone(c.invoke.raised)
                                    THEN c.invoke.raised[1].message
                                    ELSE c.parsed[1].raised[1].message
            /\ ~Failed(c) =>
                   /\ "error" \notin DOMAIN c.ret
                   /\ c.ret = c.parsed[1].ret

\* a call in which agent.invoke raised and a call in which _parse_response
\* raised on a list content, both answered with an error dictionary
C20_Witness ==
    /\ Returned = {1, 2}
    /\ ~IsNone(analyses[1].invoke.raised)
    /\ "error" \in DOMAIN analyses[1].ret
    /\ IsNone(analyses[2].invoke.raised)
    /\ analyses[2].response[1].kind = "list"
    /\ analyses[2].ret.error = STR.no_lower
    /\ chat_history = analyses[2].invoke.ret.value.messages

\* the sum the two team probabilities must have: 1.0, or 0.9 beside a draw
TeamProbTotal(a) == IF TruthyNum(a.draw_odds) THEN Rat(9, 10) ELSE One

\* C25: whatever strengths are supplied, the two actual team probabilities sum
\* to 1.0 without a draw outcome and to 0.9 with one; strengths whose sum is 0
\* or less give the two teams equal probabilities
C25_ActualNormalized ==
    \A i \in OddsCalls :
        LET c == calls[i]
            l == c.locals
        IN  /\ RAdd(l.team1_actual_prob, l.team2_actual_prob)
                   = TeamProbTotal(c.args)
            /\ ~Above(l.total_strength, 0)
                   => /\ l.team1_actual_prob = RMul(Rat(1, 2), TeamProbTotal(c.args))
                      /\ l.team2_actual_prob = RMul(Rat(1, 2), TeamProbTotal(c.args))

\* a call with a draw outcome and the strengths 0 and 0, which become 0.45
\* and 0.45
C25_Witness ==
    \E i \in OddsCalls :
        /\ TruthyNum(calls[i].args.draw_odds)
        /\ calls[i].args.team1_strength = Zero
        /\ calls[i].args.team2_strength = Zero
        /\ calls[i].locals.team1_actual_prob = <<9, 20>>
        /\ calls[i].locals.team2_actual_prob = <<9, 20>>

\* draw odds above 10.5
AboveTenAndAHalf(x) == 2 * x[1] > 21 * x[2]

\* C26: a draw bet is recommended if and only if draw odds are supplied and
\* exceed 10.5, whatever the team strengths and team odds; when draw_odds is
\* absent or 0 the draw has EV 0, actual probability 0 and implied
\* probability 0 and is not recommended
C26_DrawRecommendation ==
    \A i \in OddsCalls :
        LET c == calls[i]
            l == c.locals
        IN  /\ "Draw" \in RecommendedOutcomes(c)
                   <=> (~IsNone(c.args.draw_odds)
                        /\ AboveTenAndAHalf(c.args.draw_odds[1]))
            /\ (IsNone(c.args.draw_odds) \/ c.args.draw_odds = Some(Zero))
                   => /\ l.draw_ev = Zero
                      /\ l.draw_actual_prob = Zero
                      /\ l.draw_implied_prob = Zero
                      /\ "Draw" \notin RecommendedOutcomes(c)

\* the call a step adds to the record of the BettingAgent's calls
Added == analyses'[Len(analyses')]

\* the prompt of a recorded analyze_match call, as the message passed last
PromptOf(c) == HumanMessage(PyStr(_build_analysis_prompt(c.args)))

\* a step that is a call of analyze_match passes the stored chat history
\* followed by the new prompt; a step that is a call of clear_memory leaves
\* the chat history empty
PassesHistory ==
    Len(analyses') = Len(analyses) + 1
        => /\ Added.method = "analyze_match"
                  => Added.passed = chat_history \o <<PromptOf(Added)>>
           /\ Added.method = "clear_memory" => chat_history' = <<>>

\* the analyze_match call that follows a clear_memory passes one message
OnePromptAfterClear ==
    \A i \in DOMAIN analyses :
        (/\ i > 1
         /\ analyses[i - 1].method = "clear_memory"
         /\ analyses[i].method = "analyze_match")
            => analyses[i].passed = <<PromptOf(analyses[i])>>

OnePromptAfterClearAlone ==
    \A i \in DOMAIN analyses :
        (/\ i > 1
         /\ analyses[i - 1].method = "clear_memory"
         /\ analyses[i - 1].waiting = {}
         /\ analyses[i].method = "analyze_match")
            => analyses[i].passed = <<PromptOf(analyses[i])>>

RaiseKeepsHistory ==
    /\ (/\ Len(analyses') = Len(analyses) + 1
        /\ Added.method = "analyze_match")
           => chat_history' = chat_history
    /\ \A k \in DOMAIN analyses :
           (/\ analyses[k].pc = "invoke"
            /\ analyses'[k].pc # "invoke"
            /\ ~IsNone(analyses'[k].invoke.raised))
               => /\ chat_history' = chat_history
                  /\ analyses'[k].pc = "done"

\* C27: when agent.invoke raises inside analyze_match, the call leaves
\* chat_history exactly as it is: no step of the call adds a message to it
\* or removes one from it
C27_FailureKeepsHistory == [][RaiseKeepsHistory]_vars

\* a call that left two messages in the history, then a call in which
\* agent.invoke raised and the two messages are still the history
C27_Witness ==
    /\ Returned = {1, 2}
    /\ IsNone(analyses[1].invoke.raised)
    /\ ~IsNone(analyses[2].invoke.raised)
    /\ Len(analyses[2].passed) = 3
    /\ Len(chat_history) = 2
    /\ chat_history \o <<PromptOf(analyses[2])>> = analyses[2].passed

\* the calls of the fetcher recorded
FetchCalls ==
    {i \in DOMAIN live : live[i].method = "fetch_live_games_odds_api"}
GetAllCalls == {i \in DOMAIN live : live[i].method = "get_all_live_games"}

\* the two team names of a game in lower case
LowerPair(game) == <<StrLower(game.team1), StrLower(game.team2)>>

\* the places of all_games whose pair of names no earlier place has
FirstPlaces(all_games) ==
    {i \in DOMAIN all_games :
        \A j \in 1..(i - 1) : LowerPair(all_games[j]) # LowerPair(all_games[i])}

\* C22: get_all_live_games with use_demo false returns no two games with the
\* same (team1, team2) pair compared case-insensitively; of the games with
\* one pair the first in source order is kept, and the games kept are in
\* their source order
C22_UniqueGames ==
    \A c \in GetAllCalls :
        ~live[c].use_demo =>
            LET ret == live[c].ret
                all_games == live[c].all_games
                keep == FirstPlaces(all_games)
            IN  /\ \A k, l \in DOMAIN ret :
                       k # l => LowerPair(ret[k]) # LowerPair(ret[l])
                /\ Len(ret) = Cardinality(keep)
                /\ \A k \in DOMAIN ret :
                       \E i \in keep :
                           /\ ret[k] = all_games[i]
                           /\ Cardinality({j \in keep : j < i}) = k - 1

\* the source has the teams AB and cd after the teams Ab and Cd: the game of
\* Ab and Cd alone is returned
C22_Witness ==
    \E c \in GetAllCalls :
        /\ ~live[c].use_demo
        /\ Len(live[c].all_games) = 2
        /\ live[c].all_games[1].team1 = <<"A", "b">>
        /\ live[c].all_games[2].team1 = <<"A", "B">>
        /\ live[c].ret = <<live[c].all_games[1]>>

\* C23: get_all_live_games with use_demo true returns the demo games and calls
\* no fetcher; otherwise it calls The Odds API fetcher, then the SportsRadar
\* fetcher, and after them the web-scraping fallback exactly when the two
\* returned no games
C23_SourceOrder ==
    \A c \in GetAllCalls :
        /\ live[c].use_demo
               => /\ live[c].called = <<"get_demo_live_games">>
                  /\ ~live[c].requested
                  /\ Len(live[c].ret) = 2
                  /\ \A k \in DOMAIN live[c].ret : live[c].ret[k].source = "demo"
        /\ ~live[c].use_demo
               => live[c].called
                      = <<"fetch_live_games_odds_api",
                          "fetch_live_games_sportsradar">>
                        \o (IF live[c].all_games = <<>>
                            THEN <<"fetch_live_games_web_scraping">>
                            ELSE <<>>)

\* The Odds API returned a live game and the web-scraping fallback was not
\* called
C23_Witness ==
    \E c \in GetAllCalls :
        /\ ~live[c].use_demo
        /\ live[c].requested
        /\ live[c].ret # <<>>
        /\ Len(live[c].called) = 2

\* the seconds from the moment a timestamp with an offset names to `now`
Elapsed(time, now) ==
    now - (time.local - (IF time.zone = "+01:00" THEN HOUR ELSE 0))

\* a game of the data that started at most 3 hours ago and whose first
\* bookmaker's first market has two outcomes or more
Qualifies(game, now) ==
    /\ ~IsNone(game.commence_time)
    /\ game.commence_time[1].zone \in {"Z", "+00:00", "+01:00"}
    /\ Elapsed(game.commence_time[1], now) >= 0
    /\ Elapsed(game.commence_time[1], now) <= 10800
    /\ game.bookmakers # <<>>
    /\ game.bookmakers[1].markets # <<>>
    /\ Len(game.bookmakers[1].markets[1].outcomes) >= 2

\* C24: fetch_live_games_odds_api returns a game only if it started between 0
\* and 10800 seconds before the current time, both ends included, and its
\* first bookmaker's first market has at least two outcomes: the games
\* returned are those games of the data, in the order of the data; without
\* an API key nothing is returned
C24_LiveWindow ==
    \A c \in FetchCalls :
        LET ret == live[c].ret
        IN  /\ ~HasKey(fetcher.odds_api_key) => ret = <<>> /\ ~live[c].requested
            /\ live[c].response.kind # "data" => ret = <<>>
            /\ (HasKey(fetcher.odds_api_key) /\ live[c].response.kind = "data")
                   => LET started == SelectSeq(live[c].response.data,
                                               LAMBDA g : Qualifies(g, live[c].current_time))
                      IN  /\ Len(ret) = Len(started)
                          /\ \A k \in DOMAIN ret :
                                 LET outcomes == started[k].bookmakers[1].markets[1].outcomes
                                 IN  /\ ret[k].commence_time = started[k].commence_time
                                     /\ ret[k].team1 = outcomes[1].name
                                     /\ ret[k].team2 = outcomes[2].name
                                     /\ ret[k].team1_odds = outcomes[1].price
                                     /\ ret[k].team2_odds = outcomes[2].price

\* the data has a game that started 10800 seconds ago and a game that started
\* 10801 seconds ago: the first alone is returned
C24_Witness ==
    \E c \in FetchCalls :
        /\ HasKey(fetcher.odds_api_key)
        /\ live[c].response.kind = "data"
        /\ Len(live[c].response.data) = 2
        /\ live[c].response.data[1].commence_time = Some(IsoTime(NOW - 10800, "+00:00"))
        /\ live[c].response.data[2].commence_time = Some(IsoTime(NOW - 10801, "Z"))
        /\ Len(live[c].ret) = 1
        /\ live[c].ret[1].commence_time = Some(IsoTime(NOW - 10800, "+00:00"))

\* the calls of analyze_live_games recorded
AnalyzeCalls == {i \in DOMAIN live : live[i].method = "analyze_live_games"}

\* C28: analyze_live_games returns one entry for every live game fetched, in
\* the order of the games; a game in whose analysis an exception was raised
\* has an entry with the key error, and the games after it are analysed
C28_OneEntryPerGame ==
    \A c \in AnalyzeCalls :
        LET f == live[c].frame
        IN  /\ Len(f.analyzed_games) = f.idx - 1
            /\ f.pc \in {"loop", "invoke"} => f.idx <= Len(f.live_games)
            /\ f.pc = "done" => Len(f.analyzed_games) = Len(f.live_games)
            /\ \A i \in DOMAIN f.analyzed_games :
                   /\ f.analyzed_games[i].team1 = f.live_games[i].team1
                   /\ f.analyzed_games[i].team2 = f.live_games[i].team2
                   /\ f.analyzed_games[i].status = "LIVE"
                   /\ live[c].kinds[i] = "raise"
                          <=> "error" \in DOMAIN f.analyzed_games[i]
                   /\ live[c].kinds[i] = "answer"
                          <=> "analysis" \in DOMAIN f.analyzed_games[i]

\* two games fetched; the analysis of the first raised, and the list returned
\* has an entry with an error for it and an analysis of the second
C28_Witness ==
    \E c \in AnalyzeCalls :
        /\ live[c].frame.pc = "done"
        /\ ~live[c].use_demo
        /\ Len(live[c].frame.live_games) = 2
        /\ live[c].kinds = <<"raise", "answer">>
        /\ "error" \in DOMAIN live[c].frame.analyzed_games[1]
        /\ "analysis" \in DOMAIN live[c].frame.analyzed_games[2]

====
